---- MODULE Spec2Model ----
(***************************************************************************)
(* ark-vrf: VRF-AD proof schemes (IETF, batch-compatible, Pedersen, Thin,  *)
(* Ring) over a prime-order group.                                         *)
(*                                                                         *)
(* The curve group is the cyclic group of prime order Q.  A point a*G0 is  *)
(* represented by a in 0..Q-1, G0 being the arkworks generator; point      *)
(* addition is addition mod Q and scalar multiplication is multiplication  *)
(* mod Q.  Byte strings are sequences of naturals below BYTE, and the      *)
(* lengths of hashes, challenges and weights are scaled down with them.    *)
(***************************************************************************)
EXTENDS Integers, Sequences, FiniteSets, TLC

\* ---------------------------------------------------------------- algebra

\* Order of the scalar field (and of the group).
Q == 5

Scalars == 0 .. (Q - 1)
Points == 0 .. (Q - 1)

\* The identity element of the group.
Zero == 0

\* <S::Affine as AffineRepr>::generator(): the arkworks generator G0.
AffineGenerator == 1

\* Point addition, subtraction, scalar multiplication.
PAdd(a, b) == (a + b) % Q
PSub(a, b) == (a + Q - b) % Q
PMul(p, s) == (p * s) % Q

\* Scalar field operations.
FAdd(a, b) == (a + b) % Q
FSub(a, b) == (a + Q - b) % Q
FMul(a, b) == (a * b) % Q
FNeg(a) == (Q - a) % Q

\* ------------------------------------------------------------ byte strings

\* Number of values of one byte of a hash output or of an encoding.
BYTE == 8

\* Length of the Hasher output, in bytes.
HASH_LEN == 4

\* Suite::CHALLENGE_LEN.
CHALLENGE_LEN == 2

\* Length in bytes of a delinearization or batch weight (16 bytes, half of
\* the 32 bytes they are cut from).
WEIGHT_LEN == 2

\* Suite::SUITE_ID.
SUITE_ID == <<7>>

RECURSIVE HashAcc(_, _)
HashAcc(acc, data) ==
    IF data = <<>> THEN acc
    ELSE LET x == acc + Head(data) + 1
         IN  HashAcc((x * x * 7 + 17 * acc + 5) % 4093, Tail(data))

\* The suite's hash (S::Hasher, a Digest): HASH_LEN bytes.
Hash(data) ==
    LET h == HashAcc(11, data)
    IN  [i \in 1 .. HASH_LEN |-> (h \div (BYTE ^ (i - 1))) % BYTE]

RECURSIVE LeNat(_)
LeNat(bytes) ==
    IF bytes = <<>> THEN 0 ELSE Head(bytes) + BYTE * LeNat(Tail(bytes))

RECURSIVE BeNat(_, _)
BeNat(acc, bytes) ==
    IF bytes = <<>> THEN acc ELSE BeNat(acc * BYTE + Head(bytes), Tail(bytes))

\* ScalarField::from_le_bytes_mod_order / from_be_bytes_mod_order.
from_le_bytes_mod_order(bytes) == LeNat(bytes) % Q
from_be_bytes_mod_order(bytes) == BeNat(0, bytes) % Q

\* Codec::point_encode_into / scalar_encode_into: fixed-length injective
\* encodings (one byte each for this group).
point_encode_into(p) == <<p>>
scalar_encode_into(s) == <<s>>

RECURSIVE Concat(_)
Concat(seqs) == IF seqs = <<>> THEN <<>> ELSE Head(seqs) \o Concat(Tail(seqs))

\* ----------------------------------------------------------------- state

VARIABLES
    generator,    \* Suite::generator(): the base point of the suite in use
    secretSplit,  \* whether the build enables the "secret-split" feature
    cur,          \* the last prove call: its arguments and what it returned
    vres,         \* the last single verification: which call, and its result
    again,        \* whether the last prove call repeated the one before, and agreed with it
    bkind,        \* the scheme of the batch verifier in use
    items,        \* BatchVerifier::items (ring: the items of both batches)
    pushed,       \* per pushed item: the arguments and the proof it was pushed with
    bres,         \* the result of the last BatchVerifier::verify, "none" after a push
    grown,        \* whether a push has been made to a batch already verified
    overflowChecks, \* whether the build panics on integer overflow (debug) or wraps
    sizing,       \* the last ring sizing call: its arguments and what it returned
    builder,      \* the VerifierKeyBuilder in use and the result of its last append
    tai,          \* hash_to_curve_tai: its input, its loop counter and its result
    wire          \* the last codec or serialization call and what it returned, or the suite in use

vars == <<generator, secretSplit, cur, vres, again, bkind, items, pushed, bres,
          grown, overflowChecks, sizing, builder, tai, wire>>

\* What the operations of the proof schemes leave alone.
others == <<overflowChecks, sizing, builder, tai, wire>>

\* PedersenSuite::BLINDING_BASE.
BLINDING_BASE == 3

\* Additional data strings offered to single prove and verify.
MaxAd == 1
ADs == {<<>>} \cup {<<a>> : a \in 1 .. MaxAd}

\* Secret scalars and input points offered to prove.
SecretScalars == {1, 3}
Inputs == {2, 3, 4}
FewInputs == {2, 4}
RingInputs == {2}

\* ------------------------------------------------------------------ suite

\* mul_secret with the second share taken as x1 - s instead of s - x1.
mul_secret_swapped_share(p, s, x1) ==
    IF secretSplit
    THEN LET x2 == FSub(x1, s) IN PAdd(PMul(p, x1), PMul(p, x2))
    ELSE PMul(p, s)

\* utils::mul_secret: with secret-split the scalar is split as x1 + x2 with
\* x1 drawn at random; without it the product is taken directly.
mul_secret(p, s, x1) ==
    IF secretSplit
    THEN LET x2 == FSub(s, x1) IN PAdd(PMul(p, x1), PMul(p, x2))
    ELSE PMul(p, s)

\* utils::nonce_rfc_8032.
nonce_rfc_8032(sk, input) ==
    LET raw == scalar_encode_into(sk)
        sk_hash == SubSeq(Hash(raw), (HASH_LEN \div 2) + 1, HASH_LEN)
        v == sk_hash \o point_encode_into(input)
    IN  from_le_bytes_mod_order(Hash(v))

\* Suite::nonce (default).
nonce(sk, pt) == nonce_rfc_8032(sk, pt)

\* utils::challenge_rfc_9381: hash of the encoded points followed by the
\* additional data, truncated to CHALLENGE_LEN bytes, reduced mod Q.
challenge_rfc_9381(pts, ad) ==
    LET buf == Concat([i \in 1 .. Len(pts) |-> point_encode_into(pts[i])]) \o ad
    IN  from_be_bytes_mod_order(SubSeq(Hash(buf), 1, CHALLENGE_LEN))

\* Suite::challenge (default).
challenge(pts, ad) == challenge_rfc_9381(pts, ad)

\* Secret::from_scalar.
from_scalar(scalar) == [scalar |-> scalar, public |-> PMul(generator, scalar)]

\* Secret::output.
output(secret, input, x1) == mul_secret(input, secret.scalar, x1)

Ok == "Ok"
VerificationFailure == "VerificationFailure"

\* ------------------------------------------------------------------- ietf

\* ietf: Prover::prove for Secret.
ietf_prove(secret, input, out, ad) ==
    LET k == nonce(secret.scalar, input)
        k_b == PMul(AffineGenerator, k)
        k_h == PMul(input, k)
        c == challenge(<<secret.public, input, out, k_b, k_h>>, ad)
        s == FAdd(k, FMul(c, secret.scalar))
    IN  [c |-> c, s |-> s]

\* ietf: Verifier::verify for Public.
ietf_verify(public, input, out, ad, proof) ==
    LET s_b == PMul(AffineGenerator, proof.s)
        c_y == PMul(public, proof.c)
        u == PSub(s_b, c_y)
        s_h == PMul(input, proof.s)
        c_o == PMul(out, proof.c)
        v == PSub(s_h, c_o)
        c_exp == challenge(<<public, input, out, u, v>>, ad)
    IN  IF c_exp = proof.c THEN Ok ELSE VerificationFailure

\* ---------------------------------------------------------------- ietf_bc

\* ietf_bc: Prover::prove for Secret.  xs: the draws of the two smul! calls.
bc_prove(secret, input, out, ad, xs) ==
    LET k == nonce(secret.scalar, input)
        u == mul_secret(generator, k, xs[1])
        v == mul_secret(input, k, xs[2])
        c == challenge(<<secret.public, input, out, u, v>>, ad)
        s == FAdd(k, FMul(c, secret.scalar))
    IN  [u |-> u, v |-> v, s |-> s]

\* bc_verify computing s*G with the curve's default generator instead of
\* the suite's.
bc_verify_affine_generator(public, input, out, ad, proof) ==
    LET c == challenge(<<public, input, out, proof.u, proof.v>>, ad)
    IN  IF PAdd(proof.u, PMul(public, c)) # PMul(AffineGenerator, proof.s)
        THEN VerificationFailure
        ELSE IF PAdd(proof.v, PMul(out, c)) # PMul(input, proof.s)
        THEN VerificationFailure
        ELSE Ok

\* ietf_bc: Verifier::verify for Public.
bc_verify(public, input, out, ad, proof) ==
    LET c == challenge(<<public, input, out, proof.u, proof.v>>, ad)
    IN  IF PAdd(proof.u, PMul(public, c)) # PMul(generator, proof.s)
        THEN VerificationFailure
        ELSE IF PAdd(proof.v, PMul(out, c)) # PMul(input, proof.s)
        THEN VerificationFailure
        ELSE Ok

\* --------------------------------------------------------------- pedersen

\* PedersenSuite::blinding (default).
blinding(secret, input, aux) ==
    LET buf == SUITE_ID \o <<204>> \o scalar_encode_into(secret)
                 \o point_encode_into(input) \o aux \o <<0>>
    IN  from_be_bytes_mod_order(Hash(buf))

\* pedersen_prove committing to the key with the blinding nonce kb in the
\* place of the blinding factor b.
pedersen_prove_commits_with_nonce(secret, input, out, ad, xs) ==
    LET b == blinding(secret.scalar, input, ad)
        k == nonce(secret.scalar, input)
        kb == nonce(b, input)
        xg == mul_secret(generator, secret.scalar, xs[1])
        bb == mul_secret(BLINDING_BASE, kb, xs[2])
        pk_com == PAdd(xg, bb)
        kg == mul_secret(generator, k, xs[3])
        kbb == mul_secret(BLINDING_BASE, kb, xs[4])
        r == PAdd(kg, kbb)
        ok == mul_secret(input, k, xs[5])
        c == challenge(<<pk_com, input, out, r, ok>>, ad)
        s == FAdd(k, FMul(c, secret.scalar))
        sb == FAdd(kb, FMul(c, b))
    IN  [proof |-> [pk_com |-> pk_com, r |-> r, ok |-> ok, s |-> s, sb |-> sb],
         blinding |-> b]

\* pedersen: Prover::prove for Secret.  xs: the draws of the five smul! calls.
\* Returns the proof and the blinding factor.
pedersen_prove(secret, input, out, ad, xs) ==
    LET b == blinding(secret.scalar, input, ad)
        k == nonce(secret.scalar, input)
        kb == nonce(b, input)
        xg == mul_secret(generator, secret.scalar, xs[1])
        bb == mul_secret(BLINDING_BASE, b, xs[2])
        pk_com == PAdd(xg, bb)
        kg == mul_secret(generator, k, xs[3])
        kbb == mul_secret(BLINDING_BASE, kb, xs[4])
        r == PAdd(kg, kbb)
        ok == mul_secret(input, k, xs[5])
        c == challenge(<<pk_com, input, out, r, ok>>, ad)
        s == FAdd(k, FMul(c, secret.scalar))
        sb == FAdd(kb, FMul(c, b))
    IN  [proof |-> [pk_com |-> pk_com, r |-> r, ok |-> ok, s |-> s, sb |-> sb],
         blinding |-> b]

\* pedersen: Proof::key_commitment.
key_commitment(proof) == proof.pk_com

\* pedersen_verify with the blinding response left out of the second check.
pedersen_verify_no_sb(input, out, ad, proof) ==
    LET c == challenge(<<proof.pk_com, input, out, proof.r, proof.ok>>, ad)
    IN  IF PAdd(PMul(out, c), proof.ok) # PMul(input, proof.s)
        THEN VerificationFailure
        ELSE IF PAdd(PMul(proof.pk_com, c), proof.r) # PMul(generator, proof.s)
        THEN VerificationFailure
        ELSE Ok

\* pedersen: Verifier::verify for Public (no public key is used).
pedersen_verify(input, out, ad, proof) ==
    LET c == challenge(<<proof.pk_com, input, out, proof.r, proof.ok>>, ad)
    IN  IF PAdd(PMul(out, c), proof.ok) # PMul(input, proof.s)
        THEN VerificationFailure
        ELSE IF PAdd(PMul(proof.pk_com, c), proof.r)
                  # PAdd(PMul(generator, proof.s), PMul(BLINDING_BASE, proof.sb))
        THEN VerificationFailure
        ELSE Ok

\* ------------------------------------------------------------------- thin

\* thin::delinearize: the two weights are bytes [..16] and [16..32] of the
\* hash.
delinearize(public, input, out) ==
    LET hash == Hash(SUITE_ID \o <<17>> \o point_encode_into(generator)
                       \o point_encode_into(public) \o point_encode_into(input)
                       \o point_encode_into(out) \o <<0>>)
    IN  [z_0 |-> from_le_bytes_mod_order(SubSeq(hash, 1, WEIGHT_LEN)),
         z_1 |-> from_le_bytes_mod_order(SubSeq(hash, WEIGHT_LEN + 1, 2 * WEIGHT_LEN))]

\* thin::thin_challenge.
thin_challenge(public, input, out, r, ad) ==
    LET hash == Hash(SUITE_ID \o <<18>> \o point_encode_into(public)
                       \o point_encode_into(input) \o point_encode_into(out)
                       \o point_encode_into(r) \o ad \o <<0>>)
    IN  from_be_bytes_mod_order(SubSeq(hash, 1, CHALLENGE_LEN))

\* thin: Prover::prove for Secret.  x1: the draw of the smul! call.
thin_prove(secret, input, out, ad, x1) ==
    LET z == delinearize(secret.public, input, out)
        i_m == PAdd(PMul(input, z.z_0), PMul(generator, z.z_1))
        k == nonce(secret.scalar, i_m)
        r == mul_secret(i_m, k, x1)
        c == thin_challenge(secret.public, input, out, r, ad)
        s == FAdd(k, FMul(c, secret.scalar))
    IN  [r |-> r, s |-> s]

\* thin_verify merging the output pair with z_0 for both points.
thin_verify_same_weight(public, input, out, ad, proof) ==
    LET z == delinearize(public, input, out)
        i_m == PAdd(PMul(input, z.z_0), PMul(generator, z.z_1))
        o_m == PAdd(PMul(out, z.z_0), PMul(public, z.z_0))
        c == thin_challenge(public, input, out, proof.r, ad)
    IN  IF PAdd(proof.r, PMul(o_m, c)) # PMul(i_m, proof.s)
        THEN VerificationFailure
        ELSE Ok

\* thin: Verifier::verify for Public.
thin_verify(public, input, out, ad, proof) ==
    LET z == delinearize(public, input, out)
        i_m == PAdd(PMul(input, z.z_0), PMul(generator, z.z_1))
        o_m == PAdd(PMul(out, z.z_0), PMul(public, z.z_1))
        c == thin_challenge(public, input, out, proof.r, ad)
    IN  IF PAdd(proof.r, PMul(o_m, c)) # PMul(i_m, proof.s)
        THEN VerificationFailure
        ELSE Ok

\* ------------------------------------------------------------------- ring

\* The rings the membership collaborator is set up for: ordered key lists.
Rings == {<<1, 2>>, <<3, 4>>}

\* RingProver::prove (ring-membership collaborator), for the prover built
\* for position idx of ring: a proof that a commitment opens, with the given
\* blinding factor, to the key at that position.
RingProverProve(ring, idx, b) == [ring |-> ring, key |-> ring[idx], blinding |-> b]

\* RingVerifier::verify (ring-membership collaborator), for the verifier
\* built for ring.
RingVerifierVerify(ring, ring_proof, commitment) ==
    /\ ring_proof.ring = ring
    /\ \E i \in 1 .. Len(ring) : ring[i] = ring_proof.key
    /\ commitment = PAdd(ring_proof.key, PMul(BLINDING_BASE, ring_proof.blinding))

\* ring: Prover::prove for Secret.
ring_prove(secret, input, out, ad, ring, idx, xs) ==
    LET p == pedersen_prove(secret, input, out, ad, xs)
        ring_proof == RingProverProve(ring, idx, p.blinding)
    IN  [pedersen_proof |-> p.proof, ring_proof |-> ring_proof]

\* ring_verify that accepts as soon as the Pedersen proof verifies.
ring_verify_no_membership(input, out, ad, proof, ring) ==
    IF pedersen_verify(input, out, ad, proof.pedersen_proof) # Ok
    THEN [result |-> VerificationFailure, consulted |-> FALSE]
    ELSE [result |-> Ok, consulted |-> TRUE]

\* ring: Verifier::verify for Public.  consulted: whether the membership
\* verifier was called.
ring_verify(input, out, ad, proof, ring) ==
    IF pedersen_verify(input, out, ad, proof.pedersen_proof) # Ok
    THEN [result |-> VerificationFailure, consulted |-> FALSE]
    ELSE LET commitment == key_commitment(proof.pedersen_proof)
         IN  IF ~RingVerifierVerify(ring, proof.ring_proof, commitment)
             THEN [result |-> VerificationFailure, consulted |-> TRUE]
             ELSE [result |-> Ok, consulted |-> TRUE]


\* ---------------------------------------------------------- batch: ietf_bc

\* u32::to_le_bytes.
u32_to_le_bytes(i) == [j \in 1 .. 4 |-> (i \div (BYTE ^ (j - 1))) % BYTE]

\* Group::msm_unchecked: the sum of bases[i] * scalars[i].
RECURSIVE msm_unchecked(_, _)
msm_unchecked(bases, scalars) ==
    IF bases = <<>> THEN Zero
    ELSE PAdd(PMul(Head(bases), Head(scalars)),
              msm_unchecked(Tail(bases), Tail(scalars)))

\* Sum of a sequence of scalars.
RECURSIVE FSum(_)
FSum(scalars) ==
    IF scalars = <<>> THEN 0 ELSE FAdd(Head(scalars), FSum(Tail(scalars)))

\* ietf_bc: BatchVerifier::prepare (the BatchItem of one proof).
bc_prepare(pk, input, out, ad, proof) ==
    [c |-> challenge(<<pk, input, out, proof.u, proof.v>>, ad),
     pk |-> pk, input |-> input, output |-> out,
     u |-> proof.u, v |-> proof.v, s |-> proof.s]

\* ietf_bc: the transcript S_T of BatchVerifier::verify.
bc_transcript(its) ==
    Concat([i \in 1 .. Len(its) |->
               point_encode_into(its[i].input) \o point_encode_into(its[i].u)
                   \o point_encode_into(its[i].v) \o scalar_encode_into(its[i].s)])

\* ietf_bc: h_i of BatchVerifier::verify, split into l_i and r_i; i counts
\* from 0.
bc_weights(transcript, i) ==
    LET h_i == Hash(SUITE_ID \o <<4>> \o transcript \o u32_to_le_bytes(i) \o <<0>>)
        clen == CHALLENGE_LEN
    IN  [l |-> from_le_bytes_mod_order(SubSeq(h_i, 1, clen)),
         r |-> from_le_bytes_mod_order(SubSeq(h_i, clen + 1, 2 * clen))]

\* bc_batch_verify accumulating l_i*s_i, instead of r_i*s_i, for the shared
\* generator term.
bc_batch_verify_wrong_g_scalar(its) ==
    IF its = <<>> THEN Ok
    ELSE LET n == Len(its)
             transcript == bc_transcript(its)
             w == [i \in 1 .. n |-> bc_weights(transcript, i - 1)]
             bases == Concat([i \in 1 .. n |->
                          <<its[i].pk, its[i].u, its[i].input, its[i].output, its[i].v>>])
                      \o <<generator>>
             g_scalar == FSum([i \in 1 .. n |-> FMul(w[i].l, its[i].s)])
             scalars == Concat([i \in 1 .. n |->
                            <<FNeg(FMul(w[i].r, its[i].c)), FNeg(w[i].r),
                              FMul(w[i].l, its[i].s), FNeg(FMul(w[i].l, its[i].c)),
                              FNeg(w[i].l)>>])
                        \o <<g_scalar>>
             result == msm_unchecked(bases, scalars)
         IN  IF result # Zero THEN VerificationFailure ELSE Ok

\* ietf_bc: BatchVerifier::verify.
bc_batch_verify(its) ==
    IF its = <<>> THEN Ok
    ELSE LET n == Len(its)
             transcript == bc_transcript(its)
             w == [i \in 1 .. n |-> bc_weights(transcript, i - 1)]
             bases == Concat([i \in 1 .. n |->
                          <<its[i].pk, its[i].u, its[i].input, its[i].output, its[i].v>>])
                      \o <<generator>>
             g_scalar == FSum([i \in 1 .. n |-> FMul(w[i].r, its[i].s)])
             scalars == Concat([i \in 1 .. n |->
                            <<FNeg(FMul(w[i].r, its[i].c)), FNeg(w[i].r),
                              FMul(w[i].l, its[i].s), FNeg(FMul(w[i].l, its[i].c)),
                              FNeg(w[i].l)>>])
                        \o <<g_scalar>>
             result == msm_unchecked(bases, scalars)
         IN  IF result # Zero THEN VerificationFailure ELSE Ok

\* ------------------------------------------------------------- batch: thin

\* thin: BatchVerifier::prepare (the BatchItem of one proof).
thin_prepare(public, input, out, ad, proof) ==
    LET z == delinearize(public, input, out)
        i_m == PAdd(PMul(input, z.z_0), PMul(generator, z.z_1))
        o_m == PAdd(PMul(out, z.z_0), PMul(public, z.z_1))
        c == thin_challenge(public, input, out, proof.r, ad)
    IN  [c |-> c, i_m |-> i_m, o_m |-> o_m, r |-> proof.r, s |-> proof.s]

\* ChaCha20Rng::from_seed(seed) followed by i calls of fill_bytes: the bytes
\* of the i-th call (a deterministic function of the seed and of i).
ChaCha20Rng_fill_bytes(seed, i) == SubSeq(Hash(seed \o <<i>>), 1, WEIGHT_LEN)

\* thin: the weights of BatchVerifier::verify, from the seed hashed from all
\* the (c, s) pairs.
thin_random_scalars(its) ==
    LET hash == Hash(Concat([i \in 1 .. Len(its) |->
                     scalar_encode_into(its[i].c) \o scalar_encode_into(its[i].s)]))
        seed == hash
    IN  [i \in 1 .. Len(its) |->
            from_le_bytes_mod_order(ChaCha20Rng_fill_bytes(seed, i))]

\* thin_batch_verify adding, instead of subtracting, the I_m term.
thin_batch_verify_wrong_sign(its) ==
    IF its = <<>> THEN Ok
    ELSE LET n == Len(its)
             random_scalars == thin_random_scalars(its)
             bases == Concat([i \in 1 .. n |-> <<its[i].r, its[i].o_m, its[i].i_m>>])
             scalars == Concat([i \in 1 .. n |->
                            <<random_scalars[i], FMul(random_scalars[i], its[i].c),
                              FMul(random_scalars[i], its[i].s)>>])
             result == msm_unchecked(bases, scalars)
         IN  IF result # Zero THEN VerificationFailure ELSE Ok

\* thin: BatchVerifier::verify.
thin_batch_verify(its) ==
    IF its = <<>> THEN Ok
    ELSE LET n == Len(its)
             random_scalars == thin_random_scalars(its)
             bases == Concat([i \in 1 .. n |-> <<its[i].r, its[i].o_m, its[i].i_m>>])
             scalars == Concat([i \in 1 .. n |->
                            <<random_scalars[i], FMul(random_scalars[i], its[i].c),
                              FNeg(FMul(random_scalars[i], its[i].s))>>])
             result == msm_unchecked(bases, scalars)
         IN  IF result # Zero THEN VerificationFailure ELSE Ok

\* ------------------------------------------------------------- batch: ring

\* The ring the batch verifier's RingVerifier is built for.
BatchRing == <<1, 2>>

\* pedersen: BatchVerifier::prepare (the BatchItem of one proof).
pedersen_prepare(input, out, ad, proof) ==
    [c |-> challenge(<<proof.pk_com, input, out, proof.r, proof.ok>>, ad),
     input |-> input, output |-> out, proof |-> proof]

\* pedersen: the two weights of item i (counting from 0) of
\* BatchVerifier::verify, from the hash of all the (c, s, sb) triples.
pedersen_weights(its, i) ==
    LET transcript == Concat([j \in 1 .. Len(its) |->
                          scalar_encode_into(its[j].c)
                              \o scalar_encode_into(its[j].proof.s)
                              \o scalar_encode_into(its[j].proof.sb)])
        h_i == Hash(SUITE_ID \o transcript \o u32_to_le_bytes(i))
    IN  [t |-> from_le_bytes_mod_order(SubSeq(h_i, 1, WEIGHT_LEN)),
         u |-> from_le_bytes_mod_order(SubSeq(h_i, WEIGHT_LEN + 1, 2 * WEIGHT_LEN))]

\* pedersen: BatchVerifier::verify: one MSM over both checks of every item,
\*   t_i * (Ok_i + c_i*O_i - s_i*I_i)
\*     + u_i * (R_i + c_i*Yb_i - s_i*G - sb_i*B) summed over i is the identity.
pedersen_batch_verify(its) ==
    IF its = <<>> THEN Ok
    ELSE LET n == Len(its)
             w == [i \in 1 .. n |-> pedersen_weights(its, i - 1)]
             bases == Concat([i \in 1 .. n |->
                          <<its[i].proof.ok, its[i].output, its[i].input,
                            its[i].proof.r, its[i].proof.pk_com>>])
                      \o <<generator, BLINDING_BASE>>
             scalars == Concat([i \in 1 .. n |->
                            <<w[i].t, FMul(w[i].t, its[i].c),
                              FNeg(FMul(w[i].t, its[i].proof.s)),
                              w[i].u, FMul(w[i].u, its[i].c)>>])
                        \o <<FNeg(FSum([i \in 1 .. n |-> FMul(w[i].u, its[i].proof.s)])),
                             FNeg(FSum([i \in 1 .. n |-> FMul(w[i].u, its[i].proof.sb)]))>>
             result == msm_unchecked(bases, scalars)
         IN  IF result # Zero THEN VerificationFailure ELSE Ok

\* RingBatchVerifier (ring-membership collaborator): prepare, and verify
\* for the verifier built for ring.
RingBatchVerifierPrepare(ring_proof, commitment) ==
    [ring_proof |-> ring_proof, commitment |-> commitment]
RingBatchVerifierVerify(ring, its) ==
    \A i \in 1 .. Len(its) :
        RingVerifierVerify(ring, its[i].ring_proof, its[i].commitment)

\* ring: BatchVerifier::prepare.
ring_prepare(input, out, ad, proof) ==
    LET pedersen == pedersen_prepare(input, out, ad, proof.pedersen_proof)
        commitment == key_commitment(proof.pedersen_proof)
        ring == RingBatchVerifierPrepare(proof.ring_proof, commitment)
    IN  [ring |-> ring, pedersen |-> pedersen]

\* ring_batch_verify that rejects a batch without items.
ring_batch_verify_rejects_empty(its) ==
    IF its = <<>> THEN [result |-> VerificationFailure, consulted |-> FALSE]
    ELSE IF pedersen_batch_verify([i \in 1 .. Len(its) |-> its[i].pedersen]) # Ok
    THEN [result |-> VerificationFailure, consulted |-> FALSE]
    ELSE IF RingBatchVerifierVerify(BatchRing, [i \in 1 .. Len(its) |-> its[i].ring])
    THEN [result |-> Ok, consulted |-> TRUE]
    ELSE [result |-> VerificationFailure, consulted |-> TRUE]

\* ring_batch_verify that accepts as soon as the Pedersen batch verifies.
ring_batch_verify_pedersen_only(its) ==
    IF pedersen_batch_verify([i \in 1 .. Len(its) |-> its[i].pedersen]) # Ok
    THEN [result |-> VerificationFailure, consulted |-> FALSE]
    ELSE [result |-> Ok, consulted |-> TRUE]

\* ring: BatchVerifier::verify; its[i].pedersen are the items of
\* pedersen_batch and its[i].ring those of ring_batch.  consulted: whether
\* the collaborator's batch verifier was called.
ring_batch_verify(its) ==
    IF pedersen_batch_verify([i \in 1 .. Len(its) |-> its[i].pedersen]) # Ok
    THEN [result |-> VerificationFailure, consulted |-> FALSE]
    ELSE IF RingBatchVerifierVerify(BatchRing, [i \in 1 .. Len(its) |-> its[i].ring])
    THEN [result |-> Ok, consulted |-> TRUE]
    ELSE [result |-> VerificationFailure, consulted |-> TRUE]

\* ------------------------------------------------- single prove and verify

\* The draws of the smul! calls of one prove call when nothing is drawn:
\* xs[1] for Secret::output, xs[2..6] for the calls of prove, in order.
NoDraws == <<0, 0, 0, 0, 0, 0>>

\* Values a draw of mul_secret may take.
MaxDraw == 1
Draws == 0 .. MaxDraw

\* The draws of a prove call that makes n smul! calls.
DrawSeqs(n) == {xs \in [1 .. 6 -> Draws] : \A i \in (n + 1) .. 6 : xs[i] = 0}

Call(scheme, secret, input, out, ad, proof, b) ==
    [scheme |-> scheme, sk |-> secret.scalar, pk |-> secret.public,
     input |-> input, output |-> out, ad |-> ad, proof |-> proof, blinding |-> b]

NoCall == [scheme |-> "none"]

NoVerify == [scheme |-> "none", matching |-> FALSE, result |-> "none",
             ped |-> "none", member |-> FALSE, consulted |-> FALSE]

NotAgain == [same |-> FALSE, agree |-> FALSE]

\* Secret::from_scalar, Secret::output and ietf Prover::prove.
IetfCall(sk, input, ad, xs) ==
    LET secret == from_scalar(sk)
        out == output(secret, input, xs[1])
    IN  Call("ietf", secret, input, out, ad, ietf_prove(secret, input, out, ad), 0)

\* Secret::from_scalar, Secret::output and ietf_bc Prover::prove.
BcCall(sk, input, ad, xs) ==
    LET secret == from_scalar(sk)
        out == output(secret, input, xs[1])
    IN  Call("ietf_bc", secret, input, out, ad,
             bc_prove(secret, input, out, ad, SubSeq(xs, 2, 3)), 0)

\* Secret::from_scalar, Secret::output and pedersen Prover::prove.
PedersenCall(sk, input, ad, xs) ==
    LET secret == from_scalar(sk)
        out == output(secret, input, xs[1])
        p == pedersen_prove(secret, input, out, ad, SubSeq(xs, 2, 6))
    IN  Call("pedersen", secret, input, out, ad, p.proof, p.blinding)

\* Secret::from_scalar, Secret::output and thin Prover::prove.
ThinCall(sk, input, ad, xs) ==
    LET secret == from_scalar(sk)
        out == output(secret, input, xs[1])
    IN  Call("thin", secret, input, out, ad,
             thin_prove(secret, input, out, ad, xs[2]), 0)

\* Secret::from_scalar, Secret::output and ring Prover::prove, with the
\* RingProver built for position idx of ring.
RingCall(sk, input, ad, ring, idx, xs) ==
    LET secret == from_scalar(sk)
        out == output(secret, input, xs[1])
        proof == ring_prove(secret, input, out, ad, ring, idx, SubSeq(xs, 2, 6))
    IN  Call("ring", secret, input, out, ad, proof, proof.ring_proof.blinding)

\* No ring sizing call, no builder, no hash-to-curve call.
Idle == [op |-> "none"]

\* What every prove call leaves behind besides its result.
Returned ==
    /\ vres' = NoVerify
    /\ again' = NotAgain
    /\ UNCHANGED others
    /\ UNCHANGED <<generator, secretSplit, bkind, items, pushed, bres, grown>>

IetfProve(sk, input, ad, xs) ==
    /\ cur' = IetfCall(sk, input, ad, xs)
    /\ Returned

BcProve(sk, input, ad, xs) ==
    /\ cur' = BcCall(sk, input, ad, xs)
    /\ Returned

PedersenProve(sk, input, ad, xs) ==
    /\ cur' = PedersenCall(sk, input, ad, xs)
    /\ Returned

ThinProve(sk, input, ad, xs) ==
    /\ cur' = ThinCall(sk, input, ad, xs)
    /\ Returned

RingProve(sk, input, ad, ring, idx, xs) ==
    /\ cur' = RingCall(sk, input, ad, ring, idx, xs)
    /\ Returned

\* A second prove call with the secret key, input, output and additional
\* data of the last one, and its own draws.
Reprove(xs) ==
    /\ cur.scheme \in {"ietf", "ietf_bc", "pedersen", "thin"}
    /\ LET call == CASE cur.scheme = "ietf" -> IetfCall(cur.sk, cur.input, cur.ad, xs)
                     [] cur.scheme = "ietf_bc" -> BcCall(cur.sk, cur.input, cur.ad, xs)
                     [] cur.scheme = "pedersen" ->
                            PedersenCall(cur.sk, cur.input, cur.ad, xs)
                     [] OTHER -> ThinCall(cur.sk, cur.input, cur.ad, xs)
       IN  /\ cur' = call
           /\ again' = [same |-> call.output = cur.output,
                        agree |-> call.proof = cur.proof
                                      /\ call.blinding = cur.blinding]
    /\ vres' = NoVerify
    /\ UNCHANGED others
    /\ UNCHANGED <<generator, secretSplit, bkind, items, pushed, bres, grown>>

\* Whether a verification is given the arguments the proof was made for.
Matching(pk, input, out, ad) ==
    /\ pk = cur.pk
    /\ input = cur.input
    /\ out = cur.output
    /\ ad = cur.ad

Verified(scheme, matching, result) ==
    /\ vres' = [scheme |-> scheme, matching |-> matching, result |-> result,
                ped |-> "none", member |-> FALSE, consulted |-> FALSE]
    /\ UNCHANGED others
    /\ UNCHANGED <<generator, secretSplit, cur, again, bkind, items, pushed, bres, grown>>

IetfVerify(pk, input, out, ad) ==
    /\ cur.scheme = "ietf"
    /\ Verified("ietf", Matching(pk, input, out, ad),
                ietf_verify(pk, input, out, ad, cur.proof))

BcVerify(pk, input, out, ad) ==
    /\ cur.scheme = "ietf_bc"
    /\ Verified("ietf_bc", Matching(pk, input, out, ad),
                bc_verify(pk, input, out, ad, cur.proof))

PedersenVerify(input, out, ad) ==
    /\ cur.scheme = "pedersen"
    /\ Verified("pedersen", Matching(cur.pk, input, out, ad),
                pedersen_verify(input, out, ad, cur.proof))

ThinVerify(pk, input, out, ad) ==
    /\ cur.scheme = "thin"
    /\ Verified("thin", Matching(pk, input, out, ad),
                thin_verify(pk, input, out, ad, cur.proof))

\* ring Verifier::verify with the RingVerifier built for ring.  ped and
\* member record what each part decides on its own.
RingVerify(input, out, ad, ring) ==
    /\ cur.scheme = "ring"
    /\ LET r == ring_verify(input, out, ad, cur.proof, ring)
       IN  vres' = [scheme |-> "ring",
                    matching |-> Matching(cur.pk, input, out, ad),
                    result |-> r.result,
                    ped |-> pedersen_verify(input, out, ad, cur.proof.pedersen_proof),
                    member |-> RingVerifierVerify(ring, cur.proof.ring_proof,
                                   key_commitment(cur.proof.pedersen_proof)),
                    consulted |-> r.consulted]
    /\ UNCHANGED others
    /\ UNCHANGED <<generator, secretSplit, cur, again, bkind, items, pushed, bres, grown>>

Init ==
    /\ generator \in {AffineGenerator, 2}
    /\ secretSplit = FALSE
    /\ cur = NoCall
    /\ vres = NoVerify
    /\ again = NotAgain
    /\ bkind = "none"
    /\ items = <<>>
    /\ pushed = <<>>
    /\ bres = "none"
    /\ grown = FALSE
    /\ overflowChecks = FALSE
    /\ sizing = Idle
    /\ wire = Idle
    /\ builder = Idle
    /\ tai = Idle

Next ==
    \/ \E sk \in SecretScalars, input \in Inputs, ad \in ADs :
          IetfProve(sk, input, ad, NoDraws)
    \/ \E sk \in SecretScalars, input \in Inputs, ad \in ADs :
          BcProve(sk, input, ad, NoDraws)
    \/ \E sk \in SecretScalars, input \in Inputs, ad \in ADs :
          PedersenProve(sk, input, ad, NoDraws)
    \/ \E sk \in SecretScalars, input \in Inputs, ad \in ADs :
          ThinProve(sk, input, ad, NoDraws)
    \/ \E sk \in SecretScalars, input \in Inputs, ad \in ADs, ring \in Rings, idx \in 1 .. 2 :
          RingProve(sk, input, ad, ring, idx, NoDraws)
    \/ \E pk \in Points, input \in Points, out \in Points, ad \in ADs :
          IetfVerify(pk, input, out, ad)
    \/ \E pk \in Points, input \in Points, out \in Points, ad \in ADs :
          BcVerify(pk, input, out, ad)
    \/ \E input \in Points, out \in Points, ad \in ADs : PedersenVerify(input, out, ad)
    \/ \E pk \in Points, input \in Points, out \in Points, ad \in ADs :
          ThinVerify(pk, input, out, ad)
    \/ \E input \in Points, out \in Points, ad \in ADs, ring \in Rings :
          RingVerify(input, out, ad, ring)

Spec == Init /\ [][Next]_vars

\* ---------------------------------------------------- proving with draws

\* Prove calls of a build with or without secret-split, each smul! call
\* making its own draw, followed by repeated calls.
InitSplit ==
    /\ generator \in {AffineGenerator, 2}
    /\ secretSplit \in BOOLEAN
    /\ cur = NoCall
    /\ vres = NoVerify
    /\ again = NotAgain
    /\ bkind = "none"
    /\ items = <<>>
    /\ pushed = <<>>
    /\ bres = "none"
    /\ grown = FALSE
    /\ overflowChecks = FALSE
    /\ sizing = Idle
    /\ wire = Idle
    /\ builder = Idle
    /\ tai = Idle

\* Additional data of the proofs made for a batch and of the repeated calls.
ProverAd == <<1>>

NextSplit ==
    \/ \E sk \in SecretScalars, input \in FewInputs, xs \in DrawSeqs(1) :
          IetfProve(sk, input, ProverAd, xs)
    \/ \E sk \in SecretScalars, input \in FewInputs, xs \in DrawSeqs(3) :
          BcProve(sk, input, ProverAd, xs)
    \/ \E sk \in SecretScalars, input \in FewInputs, xs \in DrawSeqs(6) :
          PedersenProve(sk, input, ProverAd, xs)
    \/ \E sk \in SecretScalars, input \in FewInputs, xs \in DrawSeqs(2) :
          ThinProve(sk, input, ProverAd, xs)
    \/ \E xs \in DrawSeqs(6) : Reprove(xs)

SpecSplit == InitSplit /\ [][NextSplit]_vars

\* ------------------------------------------------------ batch verification

\* Largest number of items pushed to a batch verifier.
MaxBatch == 2

\* Additional data a proof is pushed with.
BatchADs == {<<1>>, <<2>>}

\* One pushed entry: what push or prepare was given.
Entry(pk, input, out, ad, proof, matching) ==
    [pk |-> pk, input |-> input, output |-> out, ad |-> ad, proof |-> proof,
     matching |-> matching]

\* BatchVerifier::push_prepared (Vec::push), for the item prepared from entry.
PushPrepared(item, entry) ==
    /\ items' = Append(items, item)
    /\ pushed' = Append(pushed, entry)
    /\ bres' = "none"
    /\ vres' = NoVerify
    /\ grown' = (grown \/ bres # "none")
    /\ UNCHANGED others
    /\ UNCHANGED <<generator, secretSplit, cur, again, bkind>>

\* ietf_bc BatchVerifier::push of the proof made by sk for (input, ad_proof),
\* pushed with ad.
BcPush(sk, input, ad_proof, ad) ==
    /\ bkind = "ietf_bc"
    /\ Len(items) < MaxBatch
    /\ LET call == BcCall(sk, input, ad_proof, NoDraws)
           entry == bc_prepare(call.pk, input, call.output, ad, call.proof)
       IN  PushPrepared(entry, Entry(call.pk, input, call.output, ad, call.proof,
                                     ad = ad_proof))

\* ietf_bc BatchVerifier::prepare followed by push_prepared.
BcPushPrepared(sk, input, ad_proof, ad) ==
    /\ bkind = "ietf_bc"
    /\ Len(items) < MaxBatch
    /\ LET call == BcCall(sk, input, ad_proof, NoDraws)
           item == bc_prepare(call.pk, input, call.output, ad, call.proof)
       IN  PushPrepared(item, Entry(call.pk, input, call.output, ad, call.proof,
                                    ad = ad_proof))

\* Inverse of a non-zero scalar.
FInv(a) == CHOOSE b \in Scalars : FMul(a, b) = 1

\* The response of the proofs pushed by BcPushForged.
ForgedScalars == {1}

\* ietf_bc BatchVerifier::push of an entry computed from public data only,
\* for the public key pk of someone else: the proof (s*G, s*input, s) and,
\* (l, r) being the weights verify derives for this entry from the inputs
\* and proofs pushed so far and its own, the output -(r/l)*pk.
BcPushForged(pk, input, ad, s) ==
    /\ bkind = "ietf_bc"
    /\ Len(items) < MaxBatch
    /\ LET proof == [u |-> PMul(generator, s), v |-> PMul(input, s), s |-> s]
           transcript == bc_transcript(items) \o point_encode_into(input)
                             \o point_encode_into(proof.u)
                             \o point_encode_into(proof.v) \o scalar_encode_into(s)
           w == bc_weights(transcript, Len(items))
           out == PMul(pk, FNeg(FMul(w.r, FInv(w.l))))
       IN  /\ w.l # 0
           /\ PushPrepared(bc_prepare(pk, input, out, ad, proof),
                           Entry(pk, input, out, ad, proof, FALSE))

\* BcBatchVerify that drains the items it has verified.
BcBatchVerify_drains ==
    /\ bkind = "ietf_bc"
    /\ bres' = bc_batch_verify(items)
    /\ items' = <<>>
    /\ UNCHANGED others
    /\ UNCHANGED <<generator, secretSplit, cur, vres, again, bkind, pushed, grown>>

\* ietf_bc BatchVerifier::verify.
BcBatchVerify ==
    /\ bkind = "ietf_bc"
    /\ bres' = bc_batch_verify(items)
    /\ UNCHANGED others
    /\ UNCHANGED <<generator, secretSplit, cur, vres, again, bkind, items, pushed, grown>>

\* thin BatchVerifier::push.
ThinPush(sk, input, ad_proof, ad) ==
    /\ bkind = "thin"
    /\ Len(items) < MaxBatch
    /\ LET call == ThinCall(sk, input, ad_proof, NoDraws)
           entry == thin_prepare(call.pk, input, call.output, ad, call.proof)
       IN  PushPrepared(entry, Entry(call.pk, input, call.output, ad, call.proof,
                                     ad = ad_proof))

\* thin BatchVerifier::prepare followed by push_prepared.
ThinPushPrepared(sk, input, ad_proof, ad) ==
    /\ bkind = "thin"
    /\ Len(items) < MaxBatch
    /\ LET call == ThinCall(sk, input, ad_proof, NoDraws)
           item == thin_prepare(call.pk, input, call.output, ad, call.proof)
       IN  PushPrepared(item, Entry(call.pk, input, call.output, ad, call.proof,
                                    ad = ad_proof))

\* thin BatchVerifier::verify.
ThinBatchVerify ==
    /\ bkind = "thin"
    /\ bres' = thin_batch_verify(items)
    /\ UNCHANGED others
    /\ UNCHANGED <<generator, secretSplit, cur, vres, again, bkind, items, pushed, grown>>

\* ring BatchVerifier::push, the proof made with the RingProver built for
\* position idx of the verifier's ring.
RingPush(sk, input, ad_proof, ad, idx) ==
    /\ bkind = "ring"
    /\ Len(items) < MaxBatch
    /\ LET call == RingCall(sk, input, ad_proof, BatchRing, idx, NoDraws)
           prepared == ring_prepare(input, call.output, ad, call.proof)
       IN  PushPrepared(prepared, Entry(call.pk, input, call.output, ad, call.proof,
                                        ad = ad_proof))

\* ring BatchVerifier::prepare followed by push_prepared.
RingPushPrepared(sk, input, ad_proof, ad, idx) ==
    /\ bkind = "ring"
    /\ Len(items) < MaxBatch
    /\ LET call == RingCall(sk, input, ad_proof, BatchRing, idx, NoDraws)
           item == ring_prepare(input, call.output, ad, call.proof)
       IN  PushPrepared(item, Entry(call.pk, input, call.output, ad, call.proof,
                                    ad = ad_proof))

\* ring BatchVerifier::verify.
RingBatchVerify ==
    /\ bkind = "ring"
    /\ LET r == ring_batch_verify(items)
       IN  /\ bres' = r.result
           /\ vres' = [scheme |-> "ring_batch", matching |-> FALSE,
                       result |-> r.result,
                       ped |-> pedersen_batch_verify(
                                   [i \in 1 .. Len(items) |-> items[i].pedersen]),
                       member |-> RingBatchVerifierVerify(
                                      BatchRing, [i \in 1 .. Len(items) |-> items[i].ring]),
                       consulted |-> r.consulted]
    /\ UNCHANGED others
    /\ UNCHANGED <<generator, secretSplit, cur, again, bkind, items, pushed, grown>>

\* BatchVerifier::new of one of the three schemes.
InitBatch ==
    /\ generator \in {AffineGenerator, 2}
    /\ secretSplit = FALSE
    /\ cur = NoCall
    /\ vres = NoVerify
    /\ again = NotAgain
    /\ bkind \in {"ietf_bc", "thin", "ring"}
    /\ items = <<>>
    /\ pushed = <<>>
    /\ bres = "none"
    /\ grown = FALSE
    /\ overflowChecks = FALSE
    /\ sizing = Idle
    /\ wire = Idle
    /\ builder = Idle
    /\ tai = Idle

NextBatch ==
    \/ \E sk \in SecretScalars, input \in FewInputs, s \in ForgedScalars :
          BcPushForged(PMul(generator, sk), input, ProverAd, s)
    \/ \E sk \in SecretScalars, input \in FewInputs, ad \in BatchADs :
          BcPush(sk, input, ProverAd, ad)
    \/ \E sk \in SecretScalars, input \in FewInputs, ad \in BatchADs :
          BcPushPrepared(sk, input, ProverAd, ad)
    \/ BcBatchVerify
    \/ \E sk \in SecretScalars, input \in FewInputs, ad \in BatchADs :
          ThinPush(sk, input, ProverAd, ad)
    \/ \E sk \in SecretScalars, input \in FewInputs, ad \in BatchADs :
          ThinPushPrepared(sk, input, ProverAd, ad)
    \/ ThinBatchVerify
    \/ \E sk \in SecretScalars, input \in RingInputs, ad \in BatchADs, idx \in 1 .. 2 :
          RingPush(sk, input, ProverAd, ad, idx)
    \/ \E sk \in SecretScalars, input \in RingInputs, ad \in BatchADs, idx \in 1 .. 2 :
          RingPushPrepared(sk, input, ProverAd, ad, idx)
    \/ RingBatchVerify

SpecBatch == InitBatch /\ [][NextBatch]_vars

\* ------------------------------------------------------------ ring sizing

\* What the ring sizing, builder and hash-to-curve operations leave alone.
schemeVars == <<generator, secretSplit, cur, vres, again, bkind, items, pushed, bres,
                grown>>

\* usize::BITS, scaled down.
USIZE_BITS == 8

\* The outcome of a call that panics.
PANIC == -1

\* ScalarField::MODULUS_BIT_SIZE: the bit length of Q.
MODULUS_BIT_SIZE == 3

\* A usize operation whose exact result is v: v when it fits; otherwise a
\* panic in a build with overflow checks, and the wrapped value without.
usize(v) ==
    IF v \in 0 .. (2 ^ USIZE_BITS - 1) THEN v
    ELSE IF overflowChecks THEN PANIC
    ELSE (v + 2 ^ USIZE_BITS) % (2 ^ USIZE_BITS)

\* usize::next_power_of_two: the smallest power of two >= x; when that does
\* not fit, a panic with overflow checks and 0 without.
next_power_of_two(x) ==
    LET p == CHOOSE q \in {2 ^ k : k \in 0 .. USIZE_BITS} :
                 q >= x /\ (q = 1 \/ q \div 2 < x)
    IN  IF p <= 2 ^ USIZE_BITS - 1 THEN p
        ELSE IF overflowChecks THEN PANIC ELSE 0

\* dom_utils::piop_overhead.
piop_overhead == 4 + MODULUS_BIT_SIZE

\* dom_utils::piop_domain_size.
piop_domain_size(min_ring_capacity) ==
    IF min_ring_capacity = PANIC THEN PANIC
    ELSE LET sum == usize(min_ring_capacity + piop_overhead)
         IN  IF sum = PANIC THEN PANIC ELSE next_power_of_two(sum)

\* dom_utils::max_ring_size_from_piop_domain_size.
max_ring_size_from_piop_domain_size(piop) ==
    IF piop = PANIC THEN PANIC ELSE usize(piop - piop_overhead)

\* dom_utils::max_ring_size.
max_ring_size(min_ring_size) ==
    max_ring_size_from_piop_domain_size(piop_domain_size(min_ring_size))

\* dom_utils::pcs_domain_size_from_piop_domain_size.
pcs_domain_size_from_piop_domain_size(piop) ==
    IF piop = PANIC THEN PANIC ELSE usize(3 * piop + 1)

\* dom_utils::pcs_domain_size.
pcs_domain_size(min_ring_size) ==
    pcs_domain_size_from_piop_domain_size(piop_domain_size(min_ring_size))

\* dom_utils::piop_domain_size_from_pcs_domain_size:
\* 1 << ((pcs_domain_size - 1) / 3).ilog2(), ilog2 panicking on 0.
piop_domain_size_from_pcs_domain_size(pcs) ==
    IF pcs = PANIC THEN PANIC
    ELSE LET a == usize(pcs - 1)
             b == a \div 3
         IN  IF a = PANIC \/ b = 0 THEN PANIC
             ELSE LET ilog2 == CHOOSE k \in 0 .. (USIZE_BITS - 1) :
                                   2 ^ k <= b /\ b < 2 ^ (k + 1)
                  IN  2 ^ ilog2

\* dom_utils::max_ring_size_from_pcs_domain_size.
max_ring_size_from_pcs_domain_size(pcs) ==
    max_ring_size_from_piop_domain_size(piop_domain_size_from_pcs_domain_size(pcs))

InvalidData == "InvalidData"

\* RingProofParams::from_pcs_params for a setup with g1 powers in G1 and g2
\* in G2, and max_ring_size() of the parameters returned: the
\* keyset_part_size of the PIOP parameters set up for the domain, which the
\* collaborator takes as the domain size less the overhead of piop_overhead.
from_pcs_params(ring_size, g1, g2) ==
    LET pcs == pcs_domain_size(ring_size)
    IN  IF pcs = PANIC THEN [status |-> "panic"]
        ELSE IF g1 < pcs \/ g2 < 2 THEN [status |-> InvalidData]
        ELSE LET piop == piop_domain_size(ring_size)
                 keyset_part_size == max_ring_size_from_piop_domain_size(piop)
             IN  IF keyset_part_size = PANIC THEN [status |-> "panic"]
                 ELSE [status |-> Ok,
                       powers_in_g1 |-> IF g1 < pcs THEN g1 ELSE pcs,
                       powers_in_g2 |-> IF g2 < 2 THEN g2 ELSE 2,
                       max_ring_size |-> keyset_part_size]

\* piop_domain_size, pcs_domain_size and max_ring_size of a ring size, and
\* the conversions of the results (testing::domain_size_conversions).
DomainSizes(n) ==
    /\ sizing.op = "args"
    /\ LET piop == piop_domain_size(n)
           pcs == pcs_domain_size(n)
           max == max_ring_size(n)
       IN  sizing' = [op |-> "sizes", n |-> n, piop |-> piop, pcs |-> pcs, max |-> max,
                      piop_of_pcs |-> piop_domain_size_from_pcs_domain_size(pcs),
                      piop_of_max |-> piop_domain_size(max),
                      max_of_max |-> max_ring_size(max),
                      piop_of_next |-> piop_domain_size(
                                           IF max = PANIC THEN PANIC ELSE usize(max + 1))]
    /\ UNCHANGED <<overflowChecks, builder, tai, wire>>
    /\ UNCHANGED schemeVars

\* piop_domain_size_from_pcs_domain_size and max_ring_size_from_pcs_domain_size
\* of a PCS domain size, and the PIOP domain of the ring size found.
FromPcsDomainSize(d) ==
    /\ sizing.op = "args"
    /\ LET piop == piop_domain_size_from_pcs_domain_size(d)
           max == max_ring_size_from_pcs_domain_size(d)
       IN  sizing' = [op |-> "from_pcs", d |-> d, piop |-> piop, max |-> max,
                      piop_of_max |-> piop_domain_size(max)]
    /\ UNCHANGED <<overflowChecks, builder, tai, wire>>
    /\ UNCHANGED schemeVars

\* RingProofParams::from_pcs_params.
FromPcsParams(ring_size, g1, g2) ==
    /\ sizing.op = "args"
    /\ sizing' = [op |-> "from_pcs_params", ring_size |-> ring_size, g1 |-> g1, g2 |-> g2,
                  pcs |-> pcs_domain_size(ring_size),
                  ret |-> from_pcs_params(ring_size, g1, g2)]
    /\ UNCHANGED <<overflowChecks, builder, tai, wire>>
    /\ UNCHANGED schemeVars

\* CanonicalDeserialize for RingProofParams: deserialize_with_mode of a PCS
\* setup that holds g1 powers in G1, which PcsParams deserializes whatever
\* their number; the PIOP parameters are set up for the domain found.
RingProofParams_deserialize_with_mode(g1) ==
    LET piop == piop_domain_size_from_pcs_domain_size(g1)
    IN  IF piop = PANIC THEN [status |-> "panic"]
        ELSE [status |-> Ok, powers_in_g1 |-> g1, piop_domain_size |-> piop]

\* RingProofParams::deserialize_compressed of a setup of g1 powers in G1.
DeserializeParams(g1) ==
    /\ sizing.op = "args"
    /\ sizing' = [op |-> "deserialize", g1 |-> g1,
                  ret |-> RingProofParams_deserialize_with_mode(g1)]
    /\ UNCHANGED <<overflowChecks, builder, tai, wire>>
    /\ UNCHANGED schemeVars

\* The arguments of the sizing calls: every usize, and these numbers of G1
\* and G2 powers of the setup given to from_pcs_params.
G1Lens == {0, 24, 25, 26, 49, 97, 200}
G2Lens == {1, 2, 3}

InitSizing ==
    /\ generator = AffineGenerator
    /\ secretSplit = FALSE
    /\ cur = NoCall
    /\ vres = NoVerify
    /\ again = NotAgain
    /\ bkind = "none"
    /\ items = <<>>
    /\ pushed = <<>>
    /\ bres = "none"
    /\ grown = FALSE
    /\ overflowChecks \in BOOLEAN
    /\ \E n \in 0 .. (2 ^ USIZE_BITS - 1), g1 \in G1Lens, g2 \in G2Lens :
          sizing = [op |-> "args", n |-> n, g1 |-> g1, g2 |-> g2]
    /\ builder = Idle
    /\ wire = Idle
    /\ tai = Idle

\* Each function applied to the arguments drawn.
NextSizing ==
    \/ DomainSizes(sizing.n)
    \/ FromPcsDomainSize(sizing.n)
    \/ FromPcsParams(sizing.n, sizing.g1, sizing.g2)
    \/ DeserializeParams(sizing.n)

SpecSizing == InitSizing /\ [][NextSizing]_vars

\* ------------------------------------------------- verifier key builder

\* RingSuite::PADDING.
PADDING == 4

\* The SRS in Lagrangian form (RingBuilderKey::lis_in_g1) of the largest
\* PIOP domain used, one element per row.
lis_in_g1 == <<1, 2, 3, 4, 2, 4, 1, 3, 3, 1, 4, 2, 4, 3, 2, 1>>

\* Largest number of keys given to one append call.
MaxChunk == 2

\* Keys appended to a ring, and the chunks given to one append call.
RingKeys == {1, 2}
Chunks == UNION {[1 .. n -> RingKeys] : n \in 0 .. MaxChunk}

\* The commitment the collaborator keeps for the keys committed so far
\* (PartialRingCommitment): sum of key * srs element over the rows given.
RECURSIVE Commit(_, _)
Commit(keys, srs) ==
    IF keys = <<>> THEN 0
    ELSE FAdd(FMul(Head(keys), Head(srs)), Commit(Tail(keys), Tail(srs)))

\* SrsLookup::lookup for the range start..end: of &RingBuilderPcsParams
\* (kind "params", None when the range ends beyond the vector) and of the
\* closure |_| None (kind "none").
SrsLookup(lookup, start, end) ==
    IF lookup.kind = "none" \/ end > Len(lookup.srs)
    THEN [some |-> FALSE, segment |-> <<>>]
    ELSE [some |-> TRUE, segment |-> SubSeq(lookup.srs, start + 1, end)]

\* VerifierKeyBuilder::new (PartialRingCommitment::empty): every slot holds
\* the padding point.
VerifierKeyBuilder_new(keyset_part_size) ==
    [max_keys |-> keyset_part_size, curr_keys |-> 0,
     cx |-> Commit([i \in 1 .. keyset_part_size |-> PADDING],
                   SubSeq(lis_in_g1, 1, keyset_part_size))]

\* VerifierKeyBuilder::free_slots.
free_slots(partial) == partial.max_keys - partial.curr_keys

\* partial_append counting one key for each call, whatever the number of
\* keys given.
partial_append_counts_calls(partial, pks, segment) ==
    [partial EXCEPT !.curr_keys = @ + 1,
                    !.cx = FAdd(@, Commit([i \in 1 .. Len(pks) |-> FSub(pks[i], PADDING)],
                                          segment))]

\* PartialRingCommitment::append (collaborator): the keys replace the
\* padding of the next slots, committed with the segment the lookup gives.
partial_append(partial, pks, segment) ==
    [partial EXCEPT !.curr_keys = @ + Len(pks),
                    !.cx = FAdd(@, Commit([i \in 1 .. Len(pks) |-> FSub(pks[i], PADDING)],
                                          segment))]

\* append returning the number of keys given when they do not fit.
append_err_len(partial, pks, lookup) ==
    LET avail_slots == free_slots(partial)
    IN  IF avail_slots < Len(pks)
        THEN [partial |-> partial, ok |-> FALSE, err |-> Len(pks)]
        ELSE LET segment == SrsLookup(lookup, partial.curr_keys,
                                      partial.curr_keys + Len(pks))
             IN  IF ~segment.some
                 THEN [partial |-> partial, ok |-> FALSE, err |-> 2 ^ USIZE_BITS - 1]
                 ELSE [partial |-> partial_append(partial, pks, segment.segment),
                       ok |-> TRUE, err |-> 0]

\* append looking the segment up before it checks the capacity.
append_lookup_first(partial, pks, lookup) ==
    LET avail_slots == free_slots(partial)
        segment == SrsLookup(lookup, partial.curr_keys, partial.curr_keys + Len(pks))
    IN  IF ~segment.some
        THEN [partial |-> partial, ok |-> FALSE, err |-> 2 ^ USIZE_BITS - 1]
        ELSE IF avail_slots < Len(pks)
        THEN [partial |-> partial, ok |-> FALSE, err |-> avail_slots]
        ELSE [partial |-> partial_append(partial, pks, segment.segment),
              ok |-> TRUE, err |-> 0]

\* append looking up the segment 0..len instead of curr_keys..curr_keys+len.
append_first_segment(partial, pks, lookup) ==
    LET avail_slots == free_slots(partial)
    IN  IF avail_slots < Len(pks)
        THEN [partial |-> partial, ok |-> FALSE, err |-> avail_slots]
        ELSE LET segment == SrsLookup(lookup, 0, Len(pks))
             IN  IF ~segment.some
                 THEN [partial |-> partial, ok |-> FALSE, err |-> 2 ^ USIZE_BITS - 1]
                 ELSE [partial |-> partial_append(partial, pks, segment.segment),
                       ok |-> TRUE, err |-> 0]

\* VerifierKeyBuilder::append: Ok (ok), or Err(err).
append(partial, pks, lookup) ==
    LET avail_slots == free_slots(partial)
    IN  IF avail_slots < Len(pks)
        THEN [partial |-> partial, ok |-> FALSE, err |-> avail_slots]
        ELSE LET segment == SrsLookup(lookup, partial.curr_keys,
                                      partial.curr_keys + Len(pks))
             IN  IF ~segment.some
                 THEN [partial |-> partial, ok |-> FALSE, err |-> 2 ^ USIZE_BITS - 1]
                 ELSE [partial |-> partial_append(partial, pks, segment.segment),
                       ok |-> TRUE, err |-> 0]

\* VerifierKeyBuilder::finalize: the verifier key of the commitment built.
finalize(partial) == [commitment |-> partial.cx]

\* RingProofParams::verifier_key (ring_proof::index): the keys beyond
\* max_ring_size are ignored, the slots left are padded.
verifier_key(keyset_part_size, pks) ==
    LET n == IF Len(pks) < keyset_part_size THEN Len(pks) ELSE keyset_part_size
        slots == [i \in 1 .. keyset_part_size |-> IF i <= n THEN pks[i] ELSE PADDING]
    IN  [commitment |-> Commit(slots, SubSeq(lis_in_g1, 1, keyset_part_size))]

\* The lookups given to append: the RingBuilderPcsParams of the parameters,
\* a vector cut to its first rows, and the closure |_| None.
Lookups(keyset_part_size) ==
    {[kind |-> "params", srs |-> SubSeq(lis_in_g1, 1, piop_domain_size(keyset_part_size))],
     [kind |-> "params", srs |-> SubSeq(lis_in_g1, 1, 4)],
     [kind |-> "none", srs |-> <<>>]}

\* vk_builder.append(pks, lookup).  last: the call and the builder it was
\* made on; ring: the keys appended so far; missed: whether a lookup has
\* failed so far.
BuilderAppend(pks, lookup) ==
    /\ builder.state = "building"
    /\ LET r == append(builder.partial, pks, lookup)
           found == SrsLookup(lookup, builder.partial.curr_keys,
                              builder.partial.curr_keys + Len(pks)).some
       IN  builder' = [builder EXCEPT
                           !.partial = r.partial,
                           !.ring = IF r.ok THEN @ \o pks ELSE @,
                           !.missed = @ \/ (~r.ok /\ r.err = 2 ^ USIZE_BITS - 1),
                           !.last = [len |-> Len(pks), found |-> found,
                                     before |-> builder.partial,
                                     ok |-> r.ok, err |-> r.err]]
    /\ UNCHANGED <<overflowChecks, sizing, tai, wire>>
    /\ UNCHANGED schemeVars

\* vk_builder.finalize().
Finalize ==
    /\ builder.state = "building"
    /\ builder' = [builder EXCEPT !.state = "finalized",
                                  !.vk = finalize(builder.partial)]
    /\ UNCHANGED <<overflowChecks, sizing, tai, wire>>
    /\ UNCHANGED schemeVars

\* params.verifier_key_builder() for parameters made for 1 or for 2 keys.
InitBuilder ==
    /\ generator = AffineGenerator
    /\ secretSplit = FALSE
    /\ cur = NoCall
    /\ vres = NoVerify
    /\ again = NotAgain
    /\ bkind = "none"
    /\ items = <<>>
    /\ pushed = <<>>
    /\ bres = "none"
    /\ grown = FALSE
    /\ overflowChecks = FALSE
    /\ sizing = Idle
    /\ wire = Idle
    /\ \E ring_size \in 1 .. 2 :
          builder = [state |-> "building",
                     partial |-> VerifierKeyBuilder_new(max_ring_size(ring_size)),
                     ring |-> <<>>, missed |-> FALSE,
                     last |-> [len |-> 0, found |-> TRUE,
                               before |-> VerifierKeyBuilder_new(max_ring_size(ring_size)),
                               ok |-> TRUE, err |-> 0],
                     vk |-> [commitment |-> 0]]
    /\ tai = Idle

NextBuilder ==
    \/ \E pks \in Chunks, lookup \in Lookups(builder.partial.max_keys) :
          BuilderAppend(pks, lookup)
    \/ Finalize

SpecBuilder == InitBuilder /\ [][NextBuilder]_vars

\* ----------------------------------------------------------- hash to curve

\* Cofactor of the curve: its points form a cyclic group of COFACTOR * Q
\* elements, written 0 .. COFACTOR * Q - 1, the multiples of COFACTOR being
\* the prime order subgroup.
COFACTOR == 2

\* AffinePoint::deserialize_compressed_unchecked of a buffer: the field
\* element read from its first mod_size bytes and the flags of the byte
\* after them; an error when the buffer is too short or the element is not
\* the coordinate of a point (on_curve: the residues that are).
deserialize_compressed_unchecked(bytes, suite) ==
    IF Len(bytes) < suite.mod_size + 1 THEN [ok |-> FALSE, pt |-> 0]
    ELSE LET x == LeNat(SubSeq(bytes, 1, suite.mod_size))
         IN  IF (x % 4) \in suite.on_curve
             THEN [ok |-> TRUE, pt |-> x % (COFACTOR * Q)]
             ELSE [ok |-> FALSE, pt |-> 0]

\* AffineRepr::clear_cofactor: COFACTOR * pt, as a multiple of the generator
\* of the prime order subgroup.
clear_cofactor(pt) == pt % Q

\* hash_to_curve_tai: one turn of the loop accepting the identity.
tai_attempt_accepts_identity(suite, data, ctr) ==
    LET buf == SUITE_ID \o <<1>> \o data \o <<ctr % 256, 0>>
        hash == Hash(buf)
    IN  IF Len(hash) < suite.mod_size THEN [ret |-> "None", pt |-> 0]
        ELSE LET reversed == [i \in 1 .. Len(hash) |-> hash[Len(hash) + 1 - i]]
                 d == deserialize_compressed_unchecked(reversed \o <<0>>, suite)
             IN  IF d.ok
                 THEN [ret |-> "Some", pt |-> clear_cofactor(d.pt)]
                 ELSE [ret |-> "continue", pt |-> 0]

\* hash_to_curve_tai: one turn of the loop, for the counter ctr: return
\* None, return Some(pt), or go on with the next counter.
tai_attempt(suite, data, ctr) ==
    LET buf == SUITE_ID \o <<1>> \o data \o <<ctr % 256, 0>>
        hash == Hash(buf)
    IN  IF Len(hash) < suite.mod_size THEN [ret |-> "None", pt |-> 0]
        ELSE LET reversed == [i \in 1 .. Len(hash) |-> hash[Len(hash) + 1 - i]]
                 d == deserialize_compressed_unchecked(reversed \o <<0>>, suite)
             IN  IF d.ok /\ clear_cofactor(d.pt) # Zero
                 THEN [ret |-> "Some", pt |-> clear_cofactor(d.pt)]
                 ELSE [ret |-> "continue", pt |-> 0]

\* Number of counters of the loop (for ctr in 0..256).
TaiAttempts == 256

\* One turn of the loop of hash_to_curve_tai.
TaiAttempt ==
    /\ tai.state = "running"
    /\ tai.ctr < TaiAttempts
    /\ LET a == tai_attempt(tai.suite, tai.data, tai.ctr)
       IN  tai' = IF a.ret = "continue"
                  THEN [tai EXCEPT !.ctr = @ + 1, !.attempts = @ + 1]
                  ELSE [tai EXCEPT !.state = "returned", !.attempts = @ + 1,
                                   !.ret = a.ret, !.pt = a.pt]
    /\ UNCHANGED <<overflowChecks, sizing, builder, wire>>
    /\ UNCHANGED schemeVars

\* The None after the loop of hash_to_curve_tai.
TaiReturnNone ==
    /\ tai.state = "running"
    /\ tai.ctr = TaiAttempts
    /\ tai' = [tai EXCEPT !.state = "returned", !.ret = "None"]
    /\ UNCHANGED <<overflowChecks, sizing, builder, wire>>
    /\ UNCHANGED schemeVars

\* The data hashed, and the suites: mod_size bytes of base field modulus
\* (HASH_LEN + 1: a hash shorter than the field) and the residues of the
\* coordinates of points (none: a hash that never gives a point).
MaxData == 2
TaiDatas == {<<>>} \cup {<<a>> : a \in 1 .. MaxData}
TaiSuites ==
    {[mod_size |-> HASH_LEN, on_curve |-> {0, 1}],
     [mod_size |-> HASH_LEN - 1, on_curve |-> {1}],
     [mod_size |-> HASH_LEN, on_curve |-> {}],
     [mod_size |-> HASH_LEN + 1, on_curve |-> {0, 1}]}

\* hash_to_curve_tai(data) entering its loop.
InitTai ==
    /\ generator = AffineGenerator
    /\ secretSplit = FALSE
    /\ cur = NoCall
    /\ vres = NoVerify
    /\ again = NotAgain
    /\ bkind = "none"
    /\ items = <<>>
    /\ pushed = <<>>
    /\ bres = "none"
    /\ grown = FALSE
    /\ overflowChecks = FALSE
    /\ sizing = Idle
    /\ wire = Idle
    /\ builder = Idle
    /\ \E data \in TaiDatas, suite \in TaiSuites :
          tai = [state |-> "running", suite |-> suite, data |-> data, ctr |-> 0,
                 attempts |-> 0, ret |-> "none", pt |-> 0]

NextTai ==
    \/ TaiAttempt
    \/ TaiReturnNone

SpecTai == InitTai /\ [][NextTai]_vars

\* ------------------------------------------------------------------ codec

\* The codecs are modelled on the short Weierstrass curve
\* y^2 = x^3 + x + 6 over the prime field of BASE_MODULUS elements, whose
\* points form a group of prime order SCALAR_MODULUS.  A byte has BYTE_BITS
\* bits, so that a field element takes two bytes and byte order matters.

\* Modulus of BaseField<S> and of ScalarField<S>.
BASE_MODULUS == 11
SCALAR_MODULUS == 13

\* Number of bits of a byte (BYTE = 2^BYTE_BITS).
BYTE_BITS == 3

\* BaseField::<S>::MODULUS_BIT_SIZE and ScalarField::<S>::MODULUS_BIT_SIZE.
BASE_MODULUS_BIT_SIZE == 4
SCALAR_MODULUS_BIT_SIZE == 4

\* CompressFlagBits::FLAG_BITS of short_weierstrass::Affine.
FLAG_BITS == 2

\* The right hand side of the curve equation.
CurveRhs(x) == (x * x * x + x + 6) % BASE_MODULUS

\* AffinePoint::<S>::zero(): the point at infinity.
AffineZero == [inf |-> TRUE, x |-> 0, y |-> 0]

\* The points an AffinePoint<S> of the curve can be.
CurvePoints ==
    {AffineZero} \cup
    {[inf |-> FALSE, x |-> c[1], y |-> c[2]] :
        c \in {d \in (0 .. BASE_MODULUS - 1) \X (0 .. BASE_MODULUS - 1) :
                 (d[2] * d[2]) % BASE_MODULUS = CurveRhs(d[1])}}

CurveScalars == 0 .. (SCALAR_MODULUS - 1)

\* (bits + 7) / 8: the bytes that hold a number of bits.
bytes_for(bits) == (bits + BYTE_BITS - 1) \div BYTE_BITS

\* Little-endian bytes of v, n of them.
LeBytes(v, n) == [i \in 1 .. n |-> (v \div (BYTE ^ (i - 1))) % BYTE]

\* Vec::reverse.
reverse(buf) == [i \in 1 .. Len(buf) |-> buf[Len(buf) + 1 - i]]

\* Result<AffinePoint<S>, Error> of a decoding, and a panic of the call.
DecodeOk(pt) == [status |-> Ok, pt |-> pt]
DecodeErr == [status |-> "InvalidData", pt |-> AffineZero]
DecodePanic == [status |-> "panic", pt |-> AffineZero]

\* BaseField::<S>::deserialize_compressed of a reader: the element in its
\* first bytes, little-endian; an error when the reader holds too few bytes
\* or the number is not below the modulus.  Bytes after them stay unread.
BaseField_deserialize_compressed(buf) ==
    LET n == bytes_for(BASE_MODULUS_BIT_SIZE)
    IN  IF Len(buf) < n THEN [ok |-> FALSE, x |-> 0]
        ELSE LET v == LeNat(SubSeq(buf, 1, n))
             IN  IF v >= BASE_MODULUS THEN [ok |-> FALSE, x |-> 0]
                 ELSE [ok |-> TRUE, x |-> v]

\* SWAffine::get_ys_from_x_unchecked: the two roots of the curve equation
\* at x, the smaller first; none when x is not the coordinate of a point.
get_ys_from_x_unchecked(x) ==
    LET roots == {y \in 0 .. BASE_MODULUS - 1 :
                     (y * y) % BASE_MODULUS = CurveRhs(x)}
    IN  IF roots = {} THEN <<>>
        ELSE LET y1 == CHOOSE y \in roots : \A z \in roots : y <= z
             IN  <<y1, (BASE_MODULUS - y1) % BASE_MODULUS>>

\* SWFlags: the masks of the two flag bits, the top bits of the last byte.
YIsNegative == BYTE \div 2
PointAtInfinity == BYTE \div 4

ArkworksCodec_POINT_ENCODED_LEN ==
    (BASE_MODULUS_BIT_SIZE + FLAG_BITS + BYTE_BITS - 1) \div BYTE_BITS
ArkworksCodec_SCALAR_ENCODED_LEN == bytes_for(SCALAR_MODULUS_BIT_SIZE)

\* ArkworksCodec::point_encode_into: serialize_compressed of the point, its
\* x coordinate little-endian with the flags in the last byte.
ArkworksCodec_point_encode_into(pt) ==
    LET n == bytes_for(BASE_MODULUS_BIT_SIZE + FLAG_BITS)
        x == IF pt.inf THEN 0 ELSE pt.x
        flags == IF pt.inf THEN PointAtInfinity
                 ELSE IF pt.y <= (BASE_MODULUS - pt.y) % BASE_MODULUS THEN 0
                 ELSE YIsNegative
        bytes == LeBytes(x, n)
    IN  [bytes EXCEPT ![n] = @ + flags]

\* ArkworksCodec::point_decode: deserialize_compressed_unchecked.
ArkworksCodec_point_decode(buf) ==
    LET n == bytes_for(BASE_MODULUS_BIT_SIZE + FLAG_BITS)
    IN  IF Len(buf) < n THEN DecodeErr
        ELSE LET last == buf[n]
                 negative == (last \div YIsNegative) % 2 = 1
                 infinity == (last \div PointAtInfinity) % 2 = 1
                 v == LeNat([SubSeq(buf, 1, n) EXCEPT ![n] = last % PointAtInfinity])
                 ys == get_ys_from_x_unchecked(v)
             IN  IF negative /\ infinity THEN DecodeErr
                 ELSE IF v >= BASE_MODULUS THEN DecodeErr
                 ELSE IF infinity THEN DecodeOk(AffineZero)
                 ELSE IF ys = <<>> THEN DecodeErr
                 ELSE DecodeOk([inf |-> FALSE, x |-> v,
                                y |-> IF negative THEN ys[2] ELSE ys[1]])

\* ArkworksCodec::scalar_encode_into and scalar_decode.
ArkworksCodec_scalar_encode_into(sc) ==
    LeBytes(sc, bytes_for(SCALAR_MODULUS_BIT_SIZE))
ArkworksCodec_scalar_decode(buf) == LeNat(buf) % SCALAR_MODULUS

Sec1Codec_POINT_ENCODED_LEN == 1 + (BASE_MODULUS_BIT_SIZE + BYTE_BITS - 1) \div BYTE_BITS
Sec1Codec_SCALAR_ENCODED_LEN == bytes_for(SCALAR_MODULUS_BIT_SIZE)

\* Sec1Codec::point_encode_into: one byte 0x00 for the identity, otherwise
\* the parity byte of y and then x big-endian.
Sec1Codec_point_encode_into(pt) ==
    IF pt.inf THEN <<0>>
    ELSE LET tmp == LeBytes(pt.x, bytes_for(BASE_MODULUS_BIT_SIZE))
         IN  <<IF pt.y % 2 = 1 THEN 3 ELSE 2>> \o reverse(tmp)

\* Sec1Codec::point_decode pairing the flag byte with the other root.
Sec1Codec_point_decode_other_root(bytes) ==
    IF Len(bytes) = 1 /\ bytes[1] = 0 THEN DecodeOk(AffineZero)
    ELSE LET rev == reverse(bytes)
             enc_len == Sec1Codec_POINT_ENCODED_LEN
             flagless == Len(rev) + 1 = enc_len
         IN  IF ~flagless /\ rev = <<>> THEN DecodePanic
             ELSE LET y_flag == IF flagless THEN 2 ELSE rev[Len(rev)]
                      buf == IF flagless THEN rev
                             ELSE SubSeq(rev, 1, Len(rev) - 1)
                      x == BaseField_deserialize_compressed(buf)
                      ys == IF x.ok THEN get_ys_from_x_unchecked(x.x) ELSE <<>>
                  IN  IF ~x.ok THEN DecodeErr
                      ELSE IF ys = <<>> THEN DecodeErr
                      ELSE DecodeOk([inf |-> FALSE, x |-> x.x,
                                     y |-> IF (y_flag % 2 # 0) # (ys[1] % 2 = 1)
                                           THEN ys[1] ELSE ys[2]])

\* Sec1Codec::point_decode.
Sec1Codec_point_decode(bytes) ==
    IF Len(bytes) = 1 /\ bytes[1] = 0 THEN DecodeOk(AffineZero)
    ELSE LET rev == reverse(bytes)
             enc_len == Sec1Codec_POINT_ENCODED_LEN
             flagless == Len(rev) + 1 = enc_len
         IN  IF ~flagless /\ rev = <<>> THEN DecodePanic
             ELSE LET y_flag == IF flagless THEN 2 ELSE rev[Len(rev)]
                      buf == IF flagless THEN rev
                             ELSE SubSeq(rev, 1, Len(rev) - 1)
                      x == BaseField_deserialize_compressed(buf)
                      ys == IF x.ok THEN get_ys_from_x_unchecked(x.x) ELSE <<>>
                  IN  IF ~x.ok THEN DecodeErr
                      ELSE IF ys = <<>> THEN DecodeErr
                      ELSE DecodeOk([inf |-> FALSE, x |-> x.x,
                                     y |-> IF (y_flag % 2 # 0) = (ys[1] % 2 = 1)
                                           THEN ys[1] ELSE ys[2]])

\* Sec1Codec::scalar_encode_into and scalar_decode.
Sec1Codec_scalar_encode_into(sc) ==
    reverse(LeBytes(sc, bytes_for(SCALAR_MODULUS_BIT_SIZE)))
Sec1Codec_scalar_decode(buf) == BeNat(0, buf) % SCALAR_MODULUS

\* The codecs a suite can name as its Codec, and their constants.
Codecs == {"ArkworksCodec", "Sec1Codec"}
POINT_ENCODED_LEN(codec) ==
    IF codec = "Sec1Codec" THEN Sec1Codec_POINT_ENCODED_LEN
    ELSE ArkworksCodec_POINT_ENCODED_LEN
SCALAR_ENCODED_LEN(codec) ==
    IF codec = "Sec1Codec" THEN Sec1Codec_SCALAR_ENCODED_LEN
    ELSE ArkworksCodec_SCALAR_ENCODED_LEN

\* codec::point_encode, point_decode, scalar_encode, scalar_decode: the
\* wrappers that call the suite's codec.
point_encode(codec, pt) ==
    IF codec = "Sec1Codec" THEN Sec1Codec_point_encode_into(pt)
    ELSE ArkworksCodec_point_encode_into(pt)
point_decode(codec, buf) ==
    IF codec = "Sec1Codec" THEN Sec1Codec_point_decode(buf)
    ELSE ArkworksCodec_point_decode(buf)
scalar_encode(codec, sc) ==
    IF codec = "Sec1Codec" THEN Sec1Codec_scalar_encode_into(sc)
    ELSE ArkworksCodec_scalar_encode_into(sc)
scalar_decode(codec, buf) ==
    IF codec = "Sec1Codec" THEN Sec1Codec_scalar_decode(buf)
    ELSE ArkworksCodec_scalar_decode(buf)

\* Longest byte string given to a decoder.
MaxBuf == 4

RECURSIVE BytesOfLen(_)
BytesOfLen(n) ==
    IF n = 0 THEN {<<>>}
    ELSE {<<b>> \o t : b \in 0 .. BYTE - 1, t \in BytesOfLen(n - 1)}

Buffers == UNION {BytesOfLen(n) : n \in 0 .. MaxBuf}

\* ScalarField::serialize_compressed: little-endian, whatever the codec.
ScalarField_serialize_compressed(sc) ==
    LeBytes(sc, bytes_for(SCALAR_MODULUS_BIT_SIZE))

\* ScalarField::deserialize_with_mode of a reader: the scalar in its first
\* bytes, little-endian, and the bytes left; an error when the reader holds
\* too few bytes or the number is not below the modulus.
ScalarField_deserialize_with_mode(reader) ==
    LET n == bytes_for(SCALAR_MODULUS_BIT_SIZE)
    IN  IF Len(reader) < n THEN [ok |-> FALSE, sc |-> 0, rest |-> <<>>]
        ELSE LET v == LeNat(SubSeq(reader, 1, n))
             IN  IF v >= SCALAR_MODULUS THEN [ok |-> FALSE, sc |-> 0, rest |-> <<>>]
                 ELSE [ok |-> TRUE, sc |-> v, rest |-> SubSeq(reader, n + 1, Len(reader))]

\* CanonicalSerialize for ietf::Proof: serialize_with_mode and
\* serialized_size, for a suite of the given codec and CHALLENGE_LEN.
Proof_serialize_with_mode(codec, challenge_len, proof) ==
    LET buf == scalar_encode(codec, proof.c)
    IN  IF Len(buf) < challenge_len
        THEN [ok |-> FALSE, bytes |-> <<>>]
        ELSE [ok |-> TRUE,
              bytes |-> SubSeq(buf, 1, challenge_len)
                            \o ScalarField_serialize_compressed(proof.s)]

Proof_serialized_size(challenge_len, proof) ==
    challenge_len + Len(ScalarField_serialize_compressed(proof.s))

\* CanonicalDeserialize for ietf::Proof: deserialize_with_mode.
Proof_deserialize_with_mode(codec, challenge_len, reader) ==
    LET c == ScalarField_deserialize_with_mode(reader)
        s == ScalarField_deserialize_with_mode(c.rest)
    IN  IF ~c.ok THEN [ok |-> FALSE, c |-> 0, s |-> 0]
        ELSE IF ~s.ok THEN [ok |-> FALSE, c |-> 0, s |-> 0]
        ELSE [ok |-> TRUE, c |-> c.sc, s |-> s.sc]

\* The challenges a prove call of a suite can return: the scalars of
\* CHALLENGE_LEN bytes of a hash.
Challenges(codec, challenge_len) ==
    {scalar_decode(codec, b) : b \in BytesOfLen(challenge_len)}

\* A codec call about to be made: its codec and its argument.  A proof comes
\* with the CHALLENGE_LEN of its suite.
CodecArgs ==
    UNION {{[op |-> "args", codec |-> c, arg |-> "proof", challenge_len |-> n,
             proof |-> [c |-> ch, s |-> sc]] :
               ch \in Challenges(c, n), sc \in CurveScalars} :
           c \in Codecs, n \in 1 .. ArkworksCodec_SCALAR_ENCODED_LEN}
    \cup
    {[op |-> "args", codec |-> c, arg |-> "point", pt |-> p] :
        c \in Codecs, p \in CurvePoints}
    \cup {[op |-> "args", codec |-> c, arg |-> "scalar", sc |-> s] :
        c \in Codecs, s \in CurveScalars}
    \cup {[op |-> "args", codec |-> c, arg |-> "bytes", buf |-> b] :
        c \in Codecs, b \in Buffers}

\* codec::point_encode(pt).
PointEncode ==
    /\ wire.op = "args" /\ wire.arg = "point"
    /\ wire' = [op |-> "point_encode", codec |-> wire.codec, pt |-> wire.pt,
                buf |-> point_encode(wire.codec, wire.pt)]
    /\ UNCHANGED <<overflowChecks, sizing, builder, tai>>
    /\ UNCHANGED schemeVars

\* codec::point_decode(buf), of a given byte string or of an encoding made.
PointDecode ==
    /\ \/ wire.op = "args" /\ wire.arg = "bytes"
       \/ wire.op = "point_encode"
    /\ wire' = [op |-> "point_decode", codec |-> wire.codec, buf |-> wire.buf,
                encoded |-> (wire.op = "point_encode"),
                pt |-> IF wire.op = "point_encode" THEN wire.pt ELSE AffineZero,
                res |-> point_decode(wire.codec, wire.buf)]
    /\ UNCHANGED <<overflowChecks, sizing, builder, tai>>
    /\ UNCHANGED schemeVars

\* codec::scalar_encode(sc).
ScalarEncode ==
    /\ wire.op = "args" /\ wire.arg = "scalar"
    /\ wire' = [op |-> "scalar_encode", codec |-> wire.codec, sc |-> wire.sc,
                buf |-> scalar_encode(wire.codec, wire.sc)]
    /\ UNCHANGED <<overflowChecks, sizing, builder, tai>>
    /\ UNCHANGED schemeVars

\* codec::scalar_decode(buf), of a given byte string or of an encoding made.
ScalarDecode ==
    /\ \/ wire.op = "args" /\ wire.arg = "bytes"
       \/ wire.op = "scalar_encode"
    /\ wire' = [op |-> "scalar_decode", codec |-> wire.codec, buf |-> wire.buf,
                encoded |-> (wire.op = "scalar_encode"),
                sc |-> IF wire.op = "scalar_encode" THEN wire.sc ELSE 0,
                res |-> scalar_decode(wire.codec, wire.buf)]
    /\ UNCHANGED <<overflowChecks, sizing, builder, tai>>
    /\ UNCHANGED schemeVars

\* proof.serialize_compressed(&mut buf) of an ietf proof.
ProofSerialize ==
    /\ wire.op = "args" /\ wire.arg = "proof"
    /\ wire' = [op |-> "proof_serialize", codec |-> wire.codec,
                challenge_len |-> wire.challenge_len, proof |-> wire.proof,
                res |-> Proof_serialize_with_mode(wire.codec, wire.challenge_len,
                                                  wire.proof),
                size |-> Proof_serialized_size(wire.challenge_len, wire.proof)]
    /\ UNCHANGED <<overflowChecks, sizing, builder, tai>>
    /\ UNCHANGED schemeVars

\* Proof::deserialize_compressed(&buf[..]) of the bytes just written.
ProofDeserialize ==
    /\ wire.op = "proof_serialize" /\ wire.res.ok
    /\ wire' = [op |-> "proof_deserialize", codec |-> wire.codec,
                challenge_len |-> wire.challenge_len, proof |-> wire.proof,
                bytes |-> wire.res.bytes,
                res |-> Proof_deserialize_with_mode(wire.codec, wire.challenge_len,
                                                    wire.res.bytes)]
    /\ UNCHANGED <<overflowChecks, sizing, builder, tai>>
    /\ UNCHANGED schemeVars

InitCodec ==
    /\ generator = AffineGenerator
    /\ secretSplit = FALSE
    /\ cur = NoCall
    /\ vres = NoVerify
    /\ again = NotAgain
    /\ bkind = "none"
    /\ items = <<>>
    /\ pushed = <<>>
    /\ bres = "none"
    /\ grown = FALSE
    /\ overflowChecks = FALSE
    /\ sizing = Idle
    /\ builder = Idle
    /\ tai = Idle
    /\ wire \in CodecArgs

NextCodec ==
    \/ PointEncode
    \/ PointDecode
    \/ ScalarEncode
    \/ ScalarDecode
    \/ ProofSerialize
    \/ ProofDeserialize

SpecCodec == InitCodec /\ [][NextCodec]_vars

\* ------------------------------------------ batch weights of other suites

\* &h_i[from..to] of the hash output: the slice, or a panic when the range
\* ends beyond the HASH_LEN bytes.
hash_slice(h_i, from, to) ==
    IF to > Len(h_i) THEN [panic |-> TRUE, bytes |-> <<>>]
    ELSE [panic |-> FALSE, bytes |-> SubSeq(h_i, from + 1, to)]

\* ietf_bc: BatchVerifier::verify for a suite whose CHALLENGE_LEN is clen
\* (bc_batch_verify is the case clen = CHALLENGE_LEN).
bc_batch_verify_suite(clen, its) ==
    IF its = <<>> THEN Ok
    ELSE LET n == Len(its)
             transcript == bc_transcript(its)
             h == [i \in 1 .. n |->
                      Hash(SUITE_ID \o <<4>> \o transcript
                               \o u32_to_le_bytes(i - 1) \o <<0>>)]
             l == [i \in 1 .. n |-> hash_slice(h[i], 0, clen)]
             r == [i \in 1 .. n |-> hash_slice(h[i], clen, 2 * clen)]
         IN  IF \E i \in 1 .. n : l[i].panic \/ r[i].panic THEN "panic"
             ELSE LET w == [i \in 1 .. n |->
                               [l |-> from_le_bytes_mod_order(l[i].bytes),
                                r |-> from_le_bytes_mod_order(r[i].bytes)]]
                      bases == Concat([i \in 1 .. n |->
                                   <<its[i].pk, its[i].u, its[i].input,
                                     its[i].output, its[i].v>>])
                               \o <<generator>>
                      g_scalar == FSum([i \in 1 .. n |-> FMul(w[i].r, its[i].s)])
                      scalars == Concat([i \in 1 .. n |->
                                     <<FNeg(FMul(w[i].r, its[i].c)), FNeg(w[i].r),
                                       FMul(w[i].l, its[i].s),
                                       FNeg(FMul(w[i].l, its[i].c)), FNeg(w[i].l)>>])
                                 \o <<g_scalar>>
                      result == msm_unchecked(bases, scalars)
                  IN  IF result # Zero THEN VerificationFailure ELSE Ok

\* The items of a batch: for the key 2 * generator, the input 2 and the
\* output 1, a challenge and a response with the U they fix, and the V they
\* fix or another one.
SuiteItems ==
    {[c |-> c, pk |-> PMul(generator, 2), input |-> 2, output |-> 1,
      u |-> PSub(PMul(generator, sc), PMul(PMul(generator, 2), c)),
      v |-> PAdd(PSub(PMul(2, sc), PMul(1, c)), d), s |-> sc] :
        c \in {1, 2}, sc \in Scalars, d \in {0, 1}}

\* BatchVerifier::verify of a suite with the CHALLENGE_LEN drawn.
BcSuiteBatchVerify ==
    /\ wire.op = "suite"
    /\ bres = "none"
    /\ bres' = bc_batch_verify_suite(wire.challenge_len, items)
    /\ UNCHANGED others
    /\ UNCHANGED <<generator, secretSplit, cur, vres, again, bkind, items, pushed, grown>>

\* A non-empty batch of a suite whose CHALLENGE_LEN is at most the length of
\* the hash output.
InitSuite ==
    /\ generator = AffineGenerator
    /\ secretSplit = FALSE
    /\ cur = NoCall
    /\ vres = NoVerify
    /\ again = NotAgain
    /\ bkind = "ietf_bc"
    /\ items \in UNION {[1 .. n -> SuiteItems] : n \in 1 .. MaxBatch}
    /\ pushed = <<>>
    /\ bres = "none"
    /\ grown = FALSE
    /\ overflowChecks = FALSE
    /\ sizing = Idle
    /\ builder = Idle
    /\ tai = Idle
    /\ wire \in {[op |-> "suite", challenge_len |-> n] : n \in 1 .. HASH_LEN}

NextSuite == BcSuiteBatchVerify

SpecSuite == InitSuite /\ [][NextSuite]_vars

\* ------------------------------------------------------------------ claims

\* C1: a standard (IETF) proof is accepted by verify when verify is given the
\* public key, input, output and additional data the proof was made for.
C1_IetfComplete ==
    (vres.scheme = "ietf" /\ vres.matching) => vres.result = Ok

\* C2: a Pedersen proof is accepted by verify when verify is given the input,
\* output and additional data the proof was made for.
C2_PedersenComplete ==
    (vres.scheme = "pedersen" /\ vres.matching) => vres.result = Ok

C2_Witness ==
    vres.scheme = "pedersen" /\ vres.matching /\ vres.result = Ok

\* C3: a Thin proof is accepted by verify when verify is given the public
\* key, input, output and additional data the proof was made for.
C3_ThinComplete ==
    (vres.scheme = "thin" /\ vres.matching) => vres.result = Ok

C3_Witness ==
    vres.scheme = "thin" /\ vres.matching /\ vres.result = Ok

\* C4: a batch-compatible proof is accepted by single verify when verify is
\* given the public key, input, output and additional data the proof was
\* made for.
C4_BcComplete ==
    (vres.scheme = "ietf_bc" /\ vres.matching) => vres.result = Ok

C4_Witness ==
    vres.scheme = "ietf_bc" /\ vres.matching /\ vres.result = Ok

\* C5: ring verify returns Ok exactly when the Pedersen proof verifies and the
\* membership verifier accepts the ring proof with the key commitment of that
\* Pedersen proof; otherwise it returns VerificationFailure, and it does not
\* consult the membership verifier when the Pedersen check fails.
C5_RingIff ==
    vres.scheme = "ring" =>
        /\ vres.result = Ok <=> (vres.ped = Ok /\ vres.member)
        /\ vres.result \in {Ok, VerificationFailure}
        /\ vres.ped # Ok => ~vres.consulted

C5_Witness ==
    /\ vres.scheme = "ring"
    /\ vres.ped = Ok
    /\ ~vres.member
    /\ vres.consulted
    /\ vres.result = VerificationFailure

\* C6: a batch-compatible batch in which every entry is a proof pushed (by
\* push or by prepare and push_prepared, in any order, repeats allowed) with
\* the public key, input, output and additional data it was made for
\* verifies Ok.
C6_BcBatchComplete ==
    (/\ bkind = "ietf_bc"
     /\ bres # "none"
     /\ \A i \in 1 .. Len(pushed) : pushed[i].matching) => bres = Ok

C6_Witness ==
    /\ bkind = "ietf_bc"
    /\ Len(items) = MaxBatch
    /\ \A i \in 1 .. Len(pushed) : pushed[i].matching
    /\ items[1] # items[2]
    /\ bres = Ok

\* Whether single Thin verification accepts a pushed entry.
ThinEntryValid(e) == thin_verify(e.pk, e.input, e.output, e.ad, e.proof) = Ok

\* C7: a Thin batch in which every entry is accepted by single verification
\* with the public key, input, output and additional data it was pushed
\* with verifies Ok, whatever the weights.
C7_ThinBatchComplete ==
    (/\ bkind = "thin"
     /\ bres # "none"
     /\ \A i \in 1 .. Len(pushed) : ThinEntryValid(pushed[i])) => bres = Ok

C7_Witness ==
    /\ bkind = "thin"
    /\ Len(items) = MaxBatch
    /\ \A i \in 1 .. Len(pushed) : ThinEntryValid(pushed[i])
    /\ items[1] # items[2]
    /\ bres = Ok

\* C8: verify of a batch verifier (batch-compatible, Thin, Ring) to which
\* nothing has been pushed returns Ok.
C8_EmptyBatchOk ==
    (bres # "none" /\ items = <<>>) => bres = Ok

C8_Witness ==
    bkind = "ring" /\ items = <<>> /\ bres = Ok

\* Whether single batch-compatible verification accepts a pushed entry.
BcEntryValid(e) == bc_verify(e.pk, e.input, e.output, e.ad, e.proof) = Ok

\* C9 (batch-compatible part): a batch in which exactly one entry is
\* rejected by single verification, whatever its position and the length
\* of the batch, is rejected by batch verify.
C9_BcOneInvalidFails ==
    (/\ bkind = "ietf_bc"
     /\ bres # "none"
     /\ Cardinality({i \in 1 .. Len(pushed) : ~BcEntryValid(pushed[i])}) = 1)
        => bres = VerificationFailure

\* C10: a prove call repeating the secret key, input, output and additional
\* data of the call before it returns the same proof (and, for Pedersen, the
\* same blinding factor), whatever the draws of secret-split multiplication.
C10_ProveDeterministic ==
    again.same => again.agree

C10_Witness ==
    /\ secretSplit
    /\ cur.scheme = "pedersen"
    /\ again.same
    /\ again.agree

\* Whether the scheme's single verification accepts a pushed entry.
EntryValid(e) ==
    CASE bkind = "ietf_bc" -> BcEntryValid(e)
      [] bkind = "thin" -> ThinEntryValid(e)
      [] bkind = "ring" ->
             ring_verify(e.input, e.output, e.ad, e.proof, BatchRing).result = Ok

\* C11: verify does not clear or change the batch: after any interleaving of
\* push, push_prepared and verify the accumulator holds the item of every
\* entry pushed since creation, in push order; the result of a verify is the
\* one of the check over all of them, old and new (so a repeated verify
\* returns the same result); and a batch grown by entries that single
\* verification accepts verifies Ok after every push.
C11_VerifyKeepsItems ==
    LET PreparedOf(e) ==
            CASE bkind = "ietf_bc" -> bc_prepare(e.pk, e.input, e.output, e.ad, e.proof)
              [] bkind = "thin" -> thin_prepare(e.pk, e.input, e.output, e.ad, e.proof)
              [] bkind = "ring" -> ring_prepare(e.input, e.output, e.ad, e.proof)
        BatchResultOf(its) ==
            CASE bkind = "ietf_bc" -> bc_batch_verify(its)
              [] bkind = "thin" -> thin_batch_verify(its)
              [] bkind = "ring" -> ring_batch_verify(its).result
    IN
    bkind # "none" =>
        /\ Len(items) = Len(pushed)
        /\ \A i \in 1 .. Len(pushed) : items[i] = PreparedOf(pushed[i])
        /\ bres # "none" =>
               bres = BatchResultOf([i \in 1 .. Len(pushed) |-> PreparedOf(pushed[i])])
        /\ (bres # "none" /\ \A i \in 1 .. Len(pushed) : EntryValid(pushed[i]))
               => bres = Ok

C11_Witness ==
    /\ grown
    /\ Len(items) = MaxBatch
    /\ \A i \in 1 .. Len(pushed) : EntryValid(pushed[i])
    /\ bres = Ok

\* C12: ring batch verify returns Ok exactly when the Pedersen batch over
\* the pushed items verifies and the membership collaborator's batch
\* verifier accepts the same items; otherwise it returns
\* VerificationFailure, and the Pedersen batch is checked first: the
\* collaborator is not consulted when it fails.
C12_RingBatchIff ==
    vres.scheme = "ring_batch" =>
        /\ bres = vres.result
        /\ vres.result = Ok <=> (vres.ped = Ok /\ vres.member)
        /\ vres.result \in {Ok, VerificationFailure}
        /\ vres.ped # Ok => ~vres.consulted

C12_Witness ==
    /\ vres.scheme = "ring_batch"
    /\ Len(items) = MaxBatch
    /\ vres.ped = Ok
    /\ ~vres.member
    /\ vres.consulted
    /\ vres.result = VerificationFailure

\* C13: an append of more keys than free_slots() returns Err(n), n being
\* the free slots of the builder it was called on, and leaves the builder
\* as it was; an append of one key to a full builder returns Err(0).
C13_AppendOverCapacity ==
    (builder.state = "building" /\ builder.last.len > free_slots(builder.last.before)) =>
        /\ ~builder.last.ok
        /\ builder.last.err = free_slots(builder.last.before)
        /\ builder.partial = builder.last.before
        /\ free_slots(builder.partial) = free_slots(builder.last.before)

C13_Witness ==
    /\ builder.state = "building"
    /\ builder.partial.max_keys > 1
    /\ free_slots(builder.last.before) = 0
    /\ builder.last.len = 1
    /\ ~builder.last.ok
    /\ builder.last.err = 0

\* C14: an append that fits the free slots but whose lookup of the rows
\* curr_keys .. curr_keys + len gives None returns Err(usize::MAX) and
\* leaves the builder as it was; a later append that fits and whose lookup
\* works succeeds; an append that neither fits nor finds its rows returns
\* the capacity error Err(free_slots).
C14_AppendLookupFailure ==
    builder.state = "building" =>
        LET last == builder.last
            fits == last.len <= free_slots(last.before)
        IN  /\ (fits /\ ~last.found) =>
                   /\ ~last.ok
                   /\ last.err = 2 ^ USIZE_BITS - 1
                   /\ builder.partial = last.before
            /\ (fits /\ last.found) =>
                   /\ last.ok
                   /\ builder.partial.curr_keys = last.before.curr_keys + last.len
            /\ (~fits /\ ~last.found) =>
                   /\ ~last.ok
                   /\ last.err = free_slots(last.before)

C14_Witness ==
    /\ builder.state = "building"
    /\ builder.missed
    /\ builder.last.ok
    /\ builder.last.len > 0
    /\ free_slots(builder.partial) = 0

\* C15: when the keys of a ring of exactly max_ring_size() members have been
\* appended in ring order, in chunks of any sizes, finalize() returns a
\* verifier key with the commitment of params.verifier_key(ring).
C15_IncrementalEqualsOneShot ==
    (builder.state = "finalized" /\ free_slots(builder.partial) = 0) =>
        /\ Len(builder.ring) = builder.partial.max_keys
        /\ builder.vk = verifier_key(builder.partial.max_keys, builder.ring)

C15_Witness ==
    /\ builder.state = "finalized"
    /\ builder.partial.max_keys > 1
    /\ free_slots(builder.partial) = 0
    /\ \E i, j \in 1 .. Len(builder.ring) : builder.ring[i] # builder.ring[j]
    /\ builder.vk = verifier_key(builder.partial.max_keys, builder.ring)

\* C16: for every ring size n, n = 0 included, piop_domain_size(n) is a
\* power of two, is at least n + piop_overhead, and is the smallest such
\* power: its half is less than n + piop_overhead.
C16_PiopDomainSize ==
    sizing.op = "sizes" =>
        /\ \E k \in 0 .. USIZE_BITS : sizing.piop = 2 ^ k
        /\ sizing.piop >= sizing.n + piop_overhead
        /\ sizing.piop \div 2 < sizing.n + piop_overhead

\* C17: for every ring size n, max_ring_size(n) is piop_domain_size(n) less
\* the overhead, is at least n, maps to the PIOP domain of n, is its own
\* max_ring_size, and one more key needs a strictly larger power of two.
C17_MaxRingSize ==
    sizing.op = "sizes" =>
        /\ sizing.max = sizing.piop - piop_overhead
        /\ sizing.max >= sizing.n
        /\ sizing.piop_of_max = sizing.piop
        /\ sizing.max_of_max = sizing.max
        /\ \E k \in 0 .. USIZE_BITS : sizing.piop_of_next = 2 ^ k
        /\ sizing.piop_of_next > sizing.piop

\* C18: for every ring size n, pcs_domain_size(n) is 3 * piop_domain_size(n)
\* + 1 and piop_domain_size_from_pcs_domain_size takes it back to
\* piop_domain_size(n); for every PCS size d >= 4 the latter returns the
\* largest power of two p with 3p + 1 <= d, and the ring size
\* max_ring_size_from_pcs_domain_size(d) has p as its PIOP domain.
C18_PcsPiopConversion ==
    /\ sizing.op = "sizes" =>
           /\ sizing.piop # PANIC
           /\ sizing.pcs = 3 * sizing.piop + 1
           /\ sizing.piop_of_pcs = sizing.piop
    /\ (sizing.op = "from_pcs" /\ sizing.d >= 4) =>
           /\ \E k \in 0 .. USIZE_BITS : sizing.piop = 2 ^ k
           /\ 3 * sizing.piop + 1 <= sizing.d
           /\ 3 * (2 * sizing.piop) + 1 > sizing.d
           /\ sizing.piop_of_max = sizing.piop

\* C19: from_pcs_params(ring_size, setup) returns Err(InvalidData) exactly
\* when the setup has fewer than pcs_domain_size(ring_size) G1 powers or
\* fewer than 2 G2 powers; otherwise it returns parameters with exactly
\* pcs_domain_size(ring_size) G1 powers and 2 G2 powers, whose
\* max_ring_size() is at least ring_size.
C19_FromPcsParams ==
    sizing.op = "from_pcs_params" =>
        /\ sizing.ret.status \in {Ok, InvalidData}
        /\ sizing.ret.status = InvalidData <=> (sizing.g1 < sizing.pcs \/ sizing.g2 < 2)
        /\ sizing.ret.status = Ok =>
               /\ sizing.ret.powers_in_g1 = sizing.pcs
               /\ sizing.ret.powers_in_g2 = 2
               /\ sizing.ret.max_ring_size >= sizing.ring_size

\* C20: hash_to_curve_tai makes at most 256 attempts, for the counters 0,
\* 1, ... in this order; it returns the cofactor-cleared point of the first
\* counter whose hash decodes to a point that is not the identity once
\* cleared, and None when no counter of 0..255 has such a hash; it never
\* returns the identity.
C20_TaiTerminates ==
    LET Cleared(j) ==
            LET hash == Hash(SUITE_ID \o <<1>> \o tai.data \o <<j, 0>>)
                d == deserialize_compressed_unchecked(
                         [i \in 1 .. Len(hash) |-> hash[Len(hash) + 1 - i]] \o <<0>>,
                         tai.suite)
            IN  IF d.ok THEN clear_cofactor(d.pt) ELSE Zero
        Succeeds(j) == Cleared(j) # Zero
    IN
    /\ tai.state = "running" =>
           /\ tai.ctr <= 256
           /\ tai.attempts = tai.ctr
    /\ tai.state = "returned" =>
           /\ tai.attempts <= 256
           /\ tai.ret \in {"Some", "None"}
           /\ tai.ret = "Some" =>
                  /\ tai.ctr \in 0 .. 255
                  /\ tai.attempts = tai.ctr + 1
                  /\ \A j \in 0 .. (tai.ctr - 1) : ~Succeeds(j)
                  /\ Succeeds(tai.ctr)
                  /\ tai.pt = Cleared(tai.ctr)
                  /\ tai.pt # Zero
           /\ tai.ret = "None" <=> \A j \in 0 .. 255 : ~Succeeds(j)

C20_Witness ==
    /\ tai.state = "returned"
    /\ tai.ret = "Some"
    /\ tai.ctr > 1
    /\ \E j \in 0 .. (tai.ctr - 1) :
           LET hash == Hash(SUITE_ID \o <<1>> \o tai.data \o <<j, 0>>)
           IN  deserialize_compressed_unchecked(
                   [i \in 1 .. Len(hash) |-> hash[Len(hash) + 1 - i]] \o <<0>>,
                   tai.suite).ok

C22_EncodedLength ==
    /\ wire.op = "point_encode" => Len(wire.buf) = POINT_ENCODED_LEN(wire.codec)
    /\ wire.op = "scalar_encode" => Len(wire.buf) = SCALAR_ENCODED_LEN(wire.codec)

\* C23: Sec1Codec::point_decode of a byte string whose length is neither
\* POINT_ENCODED_LEN nor POINT_ENCODED_LEN - 1, and which is not the one-byte
\* encoding of the identity, returns Err(InvalidData) and does not panic.
C23_WrongLengthInvalidData ==
    ( /\ wire.op = "point_decode" /\ wire.codec = "Sec1Codec"
      /\ Len(wire.buf) \notin {Sec1Codec_POINT_ENCODED_LEN,
                               Sec1Codec_POINT_ENCODED_LEN - 1}
      /\ wire.buf # <<0>> )
    => wire.res.status = InvalidData

\* C24: a byte string of POINT_ENCODED_LEN - 1 bytes given to the public
\* codec::point_decode of a suite with the SEC1 codec is rejected with
\* InvalidData (the flag-less reading is for hash-to-curve candidates only).
C24_LeniencyLimited ==
    ( /\ wire.op = "point_decode" /\ wire.codec = "Sec1Codec"
      /\ ~wire.encoded
      /\ Len(wire.buf) = Sec1Codec_POINT_ENCODED_LEN - 1
      /\ wire.buf # <<0>> )
    => wire.res.status = InvalidData

\* C25: the key commitment of a Pedersen proof is pk + blinding *
\* BLINDING_BASE, for the public key of the secret that proved and the
\* blinding factor the prove call returned, and the ring prover is given that
\* blinding factor for the membership proof.
C25_KeyCommitmentOpens ==
    /\ cur.scheme = "pedersen" =>
          key_commitment(cur.proof)
              = PAdd(cur.pk, PMul(BLINDING_BASE, cur.blinding))
    /\ cur.scheme = "ring" =>
          /\ cur.proof.ring_proof.blinding = blinding(cur.sk, cur.input, cur.ad)
          /\ key_commitment(cur.proof.pedersen_proof)
                = PAdd(cur.pk, PMul(BLINDING_BASE, cur.proof.ring_proof.blinding))

C25_Witness ==
    /\ cur.scheme = "ring"
    /\ cur.proof.ring_proof.blinding # 0
    /\ key_commitment(cur.proof.pedersen_proof) # cur.pk
    /\ key_commitment(cur.proof.pedersen_proof)
          = PAdd(cur.pk, PMul(BLINDING_BASE, cur.proof.ring_proof.blinding))

\* C26: a new builder has max_ring_size free slots; at any time free_slots
\* is the capacity minus the number of keys of the successful appends; a
\* successful append of k keys lowers it by k, a failed append leaves it
\* unchanged; the number of keys never exceeds the capacity.
C26_SlotAccounting ==
    builder.state \in {"building", "finalized"} =>
        /\ builder.partial.max_keys \in {max_ring_size(n) : n \in 1 .. 2}
        /\ free_slots(builder.partial) = builder.partial.max_keys - Len(builder.ring)
        /\ builder.last.ok =>
              free_slots(builder.partial)
                  = free_slots(builder.last.before) - builder.last.len
        /\ ~builder.last.ok =>
              free_slots(builder.partial) = free_slots(builder.last.before)
        /\ builder.partial.curr_keys <= builder.partial.max_keys
        /\ free_slots(builder.partial) >= 0

C26_Witness ==
    /\ builder.state = "building"
    /\ builder.last.ok
    /\ builder.last.len = MaxChunk
    /\ Len(builder.ring) > MaxChunk
    /\ free_slots(builder.partial) = builder.partial.max_keys - Len(builder.ring)
    /\ free_slots(builder.partial) < free_slots(builder.last.before)

\* C27: the standard prover commits to its nonce with the suite's
\* generator(), the base point of the public key, and the verifier recomputes
\* with it, so that the proof a prove call returned verifies, whatever base
\* point the suite's generator() is.
C27_IetfUsesSuiteGenerator ==
    cur.scheme = "ietf" =>
        LET k == nonce(cur.sk, cur.input)
        IN  /\ cur.pk = PMul(generator, cur.sk)
            /\ cur.proof.c = challenge(<<cur.pk, cur.input, cur.output,
                                         PMul(generator, k), PMul(cur.input, k)>>,
                                       cur.ad)
            /\ ietf_verify(cur.pk, cur.input, cur.output, cur.ad, cur.proof) = Ok

\* C28: serializing a standard proof (c, s) writes CHALLENGE_LEN bytes for c
\* and then the scalar encoding of s, serialized_size bytes in all, and
\* deserializing those bytes gives back (c, s), for both codecs.
C28_ProofWireRoundTrip ==
    /\ wire.op = "proof_serialize" =>
          /\ wire.res.ok
          /\ Len(wire.res.bytes) = wire.challenge_len + SCALAR_ENCODED_LEN(wire.codec)
          /\ Len(wire.res.bytes) = wire.size
          /\ SubSeq(wire.res.bytes, wire.challenge_len + 1, Len(wire.res.bytes))
                = scalar_encode(wire.codec, wire.proof.s)
    /\ wire.op = "proof_deserialize" =>
          wire.res = [ok |-> TRUE, c |-> wire.proof.c, s |-> wire.proof.s]

\* C29: for a suite whose CHALLENGE_LEN is at most the length of the hash
\* output, batch-compatible BatchVerifier::verify of a non-empty batch ends
\* with Ok or Err(VerificationFailure), never with a panic.
C29_BatchWeightsInsideHash ==
    (wire.op = "suite" /\ wire.challenge_len <= HASH_LEN /\ items # <<>>
        /\ bres # "none")
    => bres \in {Ok, VerificationFailure}

\* C30: deserializing ring parameters from a PCS setup with any number of G1
\* powers does not panic: it fails with an error, or it gives parameters
\* whose PIOP domain p has 3p + 1 <= the number of G1 powers and
\* p >= piop_overhead.
C30_DeserializeUndersized ==
    sizing.op = "deserialize" =>
        /\ sizing.ret.status # "panic"
        /\ sizing.ret.status = Ok =>
              /\ 3 * sizing.ret.piop_domain_size + 1 <= sizing.g1
              /\ sizing.ret.piop_domain_size >= piop_overhead

====
